---- MODULE Spec2Model ----
(***************************************************************************)
(* A model of the ymir compiler front end: the rule-driven lexer           *)
(* (Lexer.tokenize over a LexerContext), the recursive-descent parser      *)
(* (Parser over a ParserContext, with include resolution) and the command  *)
(* line driver that runs the parser and then an emitter.                   *)
(*                                                                         *)
(* The parser is modelled as a machine with an explicit call stack: one    *)
(* step per iteration of each loop of the source that may fail to consume  *)
(* a token, so that a loop that never ends is a cycle of the model.  The   *)
(* sub-parsers whose loops consume a token in every iteration are          *)
(* operators.                                                              *)
(***************************************************************************)
EXTENDS Integers, Sequences, FiniteSets, TLC

VARIABLES
    files,          \* file name -> token sequence (what the Lexer returns for it)
    policy,         \* Parser._policy
    ctx,            \* stack of ParserContext: one per Parser (entry file, then includes)
    diagnostics,    \* DiagnosticSink._diagnostics (error messages, in order)
    project,        \* the ProjectNode under construction
    stack,          \* the call stack of the parser
    pc,             \* where the run is
    result,         \* what Parser.parse returned
    startErrors,    \* Parser.parse: currentErrorCount
    buildDir,       \* CompilationContext.initBuildDir has run
    emitted,        \* a target plugin's compile has been started
    last,           \* the last operation a caller made directly, with its outcome
    tick,           \* the parity of the number of steps the parser has run
    text,           \* LexerContext._text
    position,       \* LexerContext._position
    sourcePosition, \* LexerContext._sourcePosition
    line,           \* Lexer._line
    tokens,         \* Lexer.tokenize: tokens
    lexpc,          \* where the tokenizer is
    output,         \* what the target plugin has emitted: one entry for each route
    middlewareOptions, \* the options given to generateMiddlewareOptionsHash
    hash,           \* the options hashed first and what generateMiddlewareOptionsHash returned
    createdDtos,    \* JavaSpringBootTargetPlugin._createdDtos: option hash -> DTO name
    written,        \* the files ClassBuilder.save has written, in order
    builder         \* a ClassBuilder: _isInterface, _imports, _fields, _innerClasses

vars == <<files, policy, ctx, diagnostics, project, stack, pc, result, startErrors,
          buildDir, emitted, last, tick, text, position, sourcePosition, line, tokens, lexpc,
          output, middlewareOptions, hash, createdDtos, written, builder>>

javaVars == <<createdDtos, written, builder>>

emitterVars == <<output, middlewareOptions, hash, javaVars>>

parserVars == <<files, policy, ctx, diagnostics, project, stack, pc, result, startErrors,
                buildDir, emitted, last, tick, emitterVars>>

lexerVars == <<text, position, sourcePosition, line, tokens, lexpc>>

----------------------------------------------------------------------------
(* Bounds of the model *)

\* the longest free-form statement list of an entry file, in tokens
MaxLen == 2

\* the diagnostics kept by the sink; past it a report leaves the sink as it is
MaxDiagnostics == 4

\* the nesting of parsers (entry file and includes) the call stack of the runtime holds
MaxIncludeDepth == 3

\* the longest source text given to the lexer, in characters
MaxTextLen == 3

\* the keys at the top level of a mapping that is hashed
MaxKeys == 2

\* the roles of a clause are kept up to this many; a loop that adds a role without
\* reading a token adds no more
MaxRoles == 3

Min(a, b) == IF a < b THEN a ELSE b

----------------------------------------------------------------------------
(* Option values (MiddlewareOptionValue) *)

Undefined == [u |-> "undefined"]
StrV(s) == [s |-> s, t |-> "string"]
NumV(n) == [n |-> n, t |-> "number"]
BoolV(b) == [b |-> b, t |-> "boolean"]
ObjV(o) == [o |-> o, t |-> "object"]
ArrV(a) == [a |-> a, t |-> "array"]
GlobalVariable(name, path) == [g |-> name, path |-> path, t |-> "global"]

IsUndefined(v) == "u" \in DOMAIN v
IsString(v) == "s" \in DOMAIN v

\* JavaScript truthiness, as `if (value)` and `!body["source"]` test it
Truthy(v) ==
    CASE "u" \in DOMAIN v -> FALSE
      [] "s" \in DOMAIN v -> v.s # ""
      [] "n" \in DOMAIN v -> v.n # 0
      [] "b" \in DOMAIN v -> v.b
      [] OTHER -> TRUE

\* An options object: the keys in insertion order, each with its value
HasKey(o, k) == \E i \in 1..Len(o) : o[i].k = k

GetKey(o, k) ==
    IF HasKey(o, k) THEN o[CHOOSE i \in 1..Len(o) : o[i].k = k].v ELSE Undefined

\* options[key] = value: a key already present keeps its place
SetKey(o, k, v) ==
    IF HasKey(o, k)
    THEN [i \in 1..Len(o) |-> IF o[i].k = k THEN [k |-> k, v |-> v] ELSE o[i]]
    ELSE Append(o, [k |-> k, v |-> v])

----------------------------------------------------------------------------
(* Tokens (ISyntaxToken) *)

Tok(kind, txt) == [kind |-> kind, text |-> txt, value |-> Undefined, column |-> 0, line |-> 1]
Id(txt) == Tok("Identifier", txt)
Str(s) == [Tok("StringLiteral", s) EXCEPT !.value = StrV(s)]
Num(n) == [Tok("NumericLiteral", "n") EXCEPT !.value = NumV(n)]
Bool(b) == [Tok("BooleanLiteral", "b") EXCEPT !.value = BoolV(b)]
Kw(kind, txt) == Tok(kind, txt)

EOF == Tok("EndOfFileToken", "eof")
Semi == Tok("SemicolonToken", ";")
Slash == Tok("SlashToken", "/")
Colon == Tok("ColonToken", ":")
Comma == Tok("CommaToken", ",")
OpenParen == Tok("OpenParenToken", "(")
CloseParen == Tok("CloseParenToken", ")")
OpenBrace == Tok("OpenBraceToken", "{")
CloseBrace == Tok("CloseBraceToken", "}")
OpenBracket == Tok("OpenBracketToken", "[")
CloseBracket == Tok("CloseBracketToken", "]")
TargetKw == Kw("TargetKeyword", "target")
UseKw == Kw("UseKeyword", "use")
AuthKw == Kw("AuthKeyword", "auth")
RouterKw == Kw("RouterKeyword", "router")
IncludeKw == Kw("IncludeKeyword", "include")
GetKw == Kw("GetMethodKeyword", "GET")
PostKw == Kw("PostMethodKeyword", "POST")
AsKw == Kw("AsKeyword", "as")
WithKw == Kw("WithKeyword", "with")
HeaderKw == Kw("HeaderKeyword", "header")
BodyKw == Kw("BodyKeyword", "body")
QueryKw == Kw("QueryKeyword", "query")
PublicKw == Kw("PublicKeyword", "public")
AuthenticatedKw == Kw("AuthenticatedKeyword", "authenticated")
AuthenticateKw == Kw("AuthenticateKeyword", "authenticate")
StringKw == Kw("StringTypeKeyword", "string")
IntKw == Kw("IntegerTypeKeyword", "int")
Question == Tok("QuestionToken", "?")
Ampersand == Tok("AmpersandToken", "&")
Equals == Tok("EqualsToken", "=")
At == Tok("AtToken", "@")
Dot == Tok("DotToken", ".")

\* The tokens of a file as the lexer places them: each with its own column and line
Place(seq) ==
    [i \in 1..Len(seq) |-> [seq[i] EXCEPT !.column = i - 1, !.line = 1 + ((i - 1) \div 4)]]

----------------------------------------------------------------------------
(* DiagnosticSink *)

\* reportError and reportUnexpectedToken: one more error in the sink
ReportError(d, msg) == IF Len(d) < MaxDiagnostics THEN Append(d, msg) ELSE d

ErrorCount(d) == Len(d)

----------------------------------------------------------------------------
(* ParserContext: a cursor c = [pos, diags] over the tokens toks *)

\* peek(0): past the end it is the last token
Peek(toks, p) == IF p < Len(toks) THEN toks[p + 1] ELSE toks[Len(toks)]

Kind(toks, p) == Peek(toks, p).kind

\* jump(): every position past the end reads as the last token; the model keeps one
Jump(toks, p) == IF p < Len(toks) THEN p + 1 ELSE p

\* currentToken === start, for the token read at position q earlier
SameToken(toks, p, q) == Min(p, Len(toks) - 1) = Min(q, Len(toks) - 1)

HasNextToken(toks, p) == Kind(toks, p) # "EndOfFileToken"

\* a matchToken that reads the current token whatever its kind
MatchTokenSkipping(toks, c, kind, optional) ==
    LET current == Peek(toks, c.pos) IN
    [tok |-> IF current.kind = kind THEN current
             ELSE [kind |-> kind, text |-> "", value |-> Undefined,
                   column |-> current.column, line |-> current.line],
     pos |-> Jump(toks, c.pos),
     diags |-> IF current.kind = kind \/ optional THEN c.diags
               ELSE ReportError(c.diags, "Expected token")]

\* matchToken(kind, optional, hint): the token returned, the cursor and the sink after
MatchToken(toks, c, kind, optional) ==
    LET current == Peek(toks, c.pos) IN
    IF current.kind = kind
    THEN [tok |-> current, pos |-> Jump(toks, c.pos), diags |-> c.diags]
    ELSE [tok |-> [kind |-> kind, text |-> "", value |-> Undefined,
                   column |-> current.column, line |-> current.line],
          pos |-> c.pos,
          diags |-> IF optional THEN c.diags ELSE ReportError(c.diags, "Expected token")]

Cur(m) == [pos |-> m.pos, diags |-> m.diags]

----------------------------------------------------------------------------
(* The sub-parsers that consume a token in every iteration *)

ParseTarget(toks, c) ==
    LET m1 == MatchToken(toks, c, "TargetKeyword", FALSE)
        m2 == MatchToken(toks, Cur(m1), "Identifier", FALSE)
        m3 == MatchToken(toks, Cur(m2), "SemicolonToken", TRUE)
    IN  [target |-> m2.tok.text, pos |-> m3.pos, diags |-> m3.diags]

MethodKinds ==
    {"GetMethodKeyword", "PostMethodKeyword", "PutMethodKeyword", "DeleteMethodKeyword",
     "PatchMethodKeyword", "HeadMethodKeyword", "OptionsMethodKeyword"}

ParseMethod(toks, c) ==
    LET k == Kind(toks, c.pos) IN
    IF k \in MethodKinds
    THEN [method |-> Peek(toks, c.pos).text, pos |-> Jump(toks, c.pos), diags |-> c.diags]
    ELSE [method |-> "GET", pos |-> c.pos, diags |-> ReportError(c.diags, "Expected token")]

QueryTypeKinds ==
    {"AnyTypeKeyword", "StringTypeKeyword", "IntegerTypeKeyword", "FloatTypeKeyword",
     "BooleanTypeKeyword", "DateTypeKeyword", "DateTimeTypeKeyword", "TimeTypeKeyword"}

ParseQueryParameterType(toks, c) ==
    LET k == Kind(toks, c.pos) IN
    IF k \in QueryTypeKinds
    THEN [type |-> Peek(toks, c.pos).text, pos |-> Jump(toks, c.pos), diags |-> c.diags]
    ELSE [type |-> "any", pos |-> Jump(toks, c.pos),
          diags |-> ReportError(c.diags, "Expected token")]

\* parseQueryParameter: undefined when no '=' follows the name
ParseQueryParameter(toks, c) ==
    LET m == MatchToken(toks, c, "Identifier", FALSE) IN
    IF Kind(toks, m.pos) = "EqualsToken"
    THEN LET ty == ParseQueryParameterType(toks, [pos |-> Jump(toks, m.pos), diags |-> m.diags])
         IN  [param |-> <<[name |-> m.tok.text, type |-> ty.type]>>,
              pos |-> ty.pos, diags |-> ty.diags]
    ELSE [param |-> <<>>, pos |-> m.pos, diags |-> m.diags]

RECURSIVE ParseQueryParameters(_, _, _)
ParseQueryParameters(toks, c, parameters) ==
    IF Kind(toks, c.pos) \in {"QuestionToken", "AmpersandToken"}
    THEN LET q == ParseQueryParameter(toks, [c EXCEPT !.pos = Jump(toks, c.pos)])
         IN  ParseQueryParameters(toks, Cur(q), parameters \o q.param)
    ELSE [parameters |-> parameters, pos |-> c.pos, diags |-> c.diags]

RECURSIVE PathText(_, _, _)
PathText(toks, p, path) ==
    IF Kind(toks, p) \in {"SlashToken", "Identifier", "HashToken", "MinusToken"}
    THEN PathText(toks, Jump(toks, p), Append(path, Peek(toks, p).text))
    ELSE [path |-> path, pos |-> p]

\* alias.replace(/[^a-zA-Z0-9_]/g, "_").replace(/^[0-9]/, "_$&") on the identifiers of the model
SanitizeAlias(alias) == IF alias = "API-Key" THEN "API_Key" ELSE alias

ParsePath(toks, c) ==
    LET m == MatchToken(toks, c, "SlashToken", FALSE)
        t == PathText(toks, m.pos, <<"/">>)
        q == IF Kind(toks, t.pos) = "QuestionToken"
             THEN ParseQueryParameters(toks, [pos |-> t.pos, diags |-> m.diags], <<>>)
             ELSE [parameters |-> <<>>, pos |-> t.pos, diags |-> m.diags]
        a == IF Kind(toks, q.pos) = "AsKeyword"
             THEN MatchToken(toks, [pos |-> Jump(toks, q.pos), diags |-> q.diags],
                             "Identifier", FALSE)
             ELSE [tok |-> EOF, pos |-> q.pos, diags |-> q.diags]
    IN  [node |-> [path |-> t.path,
                   alias |-> IF Kind(toks, q.pos) = "AsKeyword"
                             THEN StrV(SanitizeAlias(a.tok.text)) ELSE Undefined,
                   queryParameters |-> q.parameters],
         pos |-> a.pos, diags |-> a.diags]

RECURSIVE GlobalVariablePath(_, _, _)
GlobalVariablePath(toks, c, path) ==
    IF Kind(toks, c.pos) = "DotToken"
    THEN LET m == MatchToken(toks, [c EXCEPT !.pos = Jump(toks, c.pos)], "Identifier", FALSE)
         IN  GlobalVariablePath(toks, Cur(m), Append(path, m.tok.text))
    ELSE [path |-> path, pos |-> c.pos, diags |-> c.diags]

\* new GlobalVariable(path.pop(), path)
ParseGlobalVariable(toks, c) ==
    LET m == MatchToken(toks, c, "Identifier", FALSE)
        g == GlobalVariablePath(toks, Cur(m), <<m.tok.text>>)
    IN  [value |-> GlobalVariable(g.path[Len(g.path)], SubSeq(g.path, 1, Len(g.path) - 1)),
         pos |-> g.pos, diags |-> g.diags]

\* the kinds parseMiddlewareOptionValue returns as their text
TextValueKinds ==
    {"StringTypeKeyword", "IntegerTypeKeyword", "FloatTypeKeyword", "BooleanTypeKeyword",
     "AnyTypeKeyword", "DateTimeTypeKeyword", "DateTypeKeyword", "TimeTypeKeyword",
     "HeaderKeyword", "QueryKeyword", "BodyKeyword", "PublicKeyword", "AuthenticatedKeyword"}

LiteralKinds == {"StringLiteral", "NumericLiteral", "BooleanLiteral"}

\* parseMiddlewareOptionValue for a value that is no object and no array
ParseScalarOptionValue(toks, c) ==
    LET current == Peek(toks, c.pos) IN
    CASE current.kind = "AtToken" ->
            ParseGlobalVariable(toks, [c EXCEPT !.pos = Jump(toks, c.pos)])
      [] current.kind \in LiteralKinds ->
            [value |-> current.value, pos |-> Jump(toks, c.pos), diags |-> c.diags]
      [] current.kind \in TextValueKinds ->
            [value |-> StrV(current.text), pos |-> Jump(toks, c.pos), diags |-> c.diags]
      [] OTHER ->
            [value |-> Undefined, pos |-> c.pos,
             diags |-> ReportError(c.diags, "Expected token")]

----------------------------------------------------------------------------
(* Syntax nodes *)

AuthTypes == {"API-Key", "Bearer"}

\* new AuthBlockNode(type, source, field, alias, defaultAccess)
AuthBlockNode(type, source, field, alias, defaultAccess) ==
    [type |-> type, source |-> source, field |-> field, alias |-> alias,
     isDefaultAccessPublic |-> defaultAccess # "authenticated",
     isAuthorizationInUse |-> FALSE]

\* AuthBlockNode.id
AuthBlockId(b) == IF IsUndefined(b.alias) THEN b.type ELSE b.alias.s

MiddlewareNode(name, options) == [name |-> name, options |-> options]

AuthenticateClauseNode(authBlock, authorization) ==
    [authBlock |-> authBlock, authorization |-> authorization]

RouteNode(f) ==
    [method |-> f.method, path |-> f.path, header |-> f.header, body |-> f.body,
     authenticate |-> f.authenticate]

RouterNode(f) ==
    [path |-> f.path, header |-> f.header, body |-> f.body,
     authenticate |-> f.authenticate, routes |-> f.routes, routers |-> f.routers]

ProjectNode(target) ==
    [target |-> target, middlewares |-> <<>>, authBlocks |-> <<>>,
     routes |-> <<>>, routers |-> <<>>]

----------------------------------------------------------------------------
(* The call stack *)

FParent(inc) == [fn |-> "parseParentNode", include |-> inc, start |-> -1]

FRouter(path) ==
    [fn |-> "parseRouter", phase |-> "clauses", path |-> path, header |-> Undefined,
     body |-> Undefined, authenticate |-> Undefined, routes |-> <<>>, routers |-> <<>>,
     start |-> -1, pending |-> ""]

FRoute(method, path) ==
    [fn |-> "parseRoute", method |-> method, path |-> path, header |-> Undefined,
     body |-> Undefined, authenticate |-> Undefined, start |-> -1, pending |-> ""]

FUse(name) == [fn |-> "parseMiddleware", name |-> name, ret |-> Undefined]

FAuth(type, alias, phase) ==
    [fn |-> "parseAuthBlock", type |-> type, alias |-> alias, phase |-> phase,
     ret |-> Undefined]

FOptions == [fn |-> "parseMiddlewareOptions", acc |-> <<>>, key |-> ""]
FObject == [fn |-> "parseMiddlewareOptionObject", acc |-> <<>>, key |-> ""]
FArray == [fn |-> "parseMiddlewareOptionArray", acc |-> <<>>]

FRoles(authBlock) ==
    [fn |-> "parseAuthenticateClause", authBlock |-> authBlock, authorization |-> <<>>]

Top(s) == s[Len(s)]
Pop(s) == SubSeq(s, 1, Len(s) - 1)
ReplaceTop(s, f) == [s EXCEPT ![Len(s)] = f]

TopIs(fn) == pc = "parsing" /\ Len(stack) > 0 /\ Top(stack).fn = fn

CurToks == files[ctx[Len(ctx)].file]
CurPos == ctx[Len(ctx)].pos
CurCursor == [pos |-> CurPos, diags |-> diagnostics]

\* the innermost parseRouter of the file being parsed only: an included file's
\* statements would go to the project
EnclosingRouterInFile(stk) ==
    IF \E i \in 1..Len(stk) :
            /\ stk[i].fn = "parseRouter"
            /\ \A j \in (i + 1)..Len(stk) : stk[j].fn # "parseParentNode"
    THEN CHOOSE i \in 1..Len(stk) :
            /\ stk[i].fn = "parseRouter"
            /\ \A j \in (i + 1)..Len(stk) : stk[j].fn # "parseRouter"
    ELSE 0

\* the router a statement is parsed into: the innermost parseRouter on the stack, 0 for
\* the project (an included file is parsed into the router that includes it)
EnclosingRouter(stk) ==
    IF \E i \in 1..Len(stk) : stk[i].fn = "parseRouter"
    THEN CHOOSE i \in 1..Len(stk) :
            /\ stk[i].fn = "parseRouter"
            /\ \A j \in (i + 1)..Len(stk) : stk[j].fn # "parseRouter"
    ELSE 0

\* an instanceof that takes every node for the project node
IsProjectNodeAlways(stk) == TRUE

\* routerNode instanceof ProjectNode
IsProjectNode(stk) == EnclosingRouter(stk) = 0

\* routerNode.routes.push(route)
PushRoute(stk, proj, route) ==
    LET i == EnclosingRouter(stk) IN
    IF i = 0
    THEN [stack |-> stk, project |-> [proj EXCEPT !.routes = Append(@, route)]]
    ELSE [stack |-> [stk EXCEPT ![i].routes = Append(@, route)], project |-> proj]

\* routerNode.routers.push(router)
PushRouter(stk, proj, router) ==
    LET i == EnclosingRouter(stk) IN
    IF i = 0
    THEN [stack |-> stk, project |-> [proj EXCEPT !.routers = Append(@, router)]]
    ELSE [stack |-> [stk EXCEPT ![i].routers = Append(@, router)], project |-> proj]

\* What the caller f does with the value v its callee returned, the cursor at p:
\* the tail of an iteration of an option loop, or the assignment of the result
Accept(f, v, toks, p) ==
    LET afterComma == IF Kind(toks, p) = "CommaToken" THEN Jump(toks, p) ELSE p IN
    CASE f.fn = "parseMiddlewareOptions" ->
            IF Truthy(v)
            THEN [frame |-> [f EXCEPT !.acc = SetKey(@, f.key, v)], pos |-> afterComma]
            ELSE [frame |-> f, pos |-> Jump(toks, p)]
      [] f.fn = "parseMiddlewareOptionObject" ->
            IF Truthy(v)
            THEN [frame |-> [f EXCEPT !.acc = SetKey(@, f.key, v)], pos |-> afterComma]
            ELSE [frame |-> f, pos |-> p]
      [] f.fn = "parseMiddlewareOptionArray" ->
            IF Truthy(v)
            THEN [frame |-> [f EXCEPT !.acc = Append(@, v)], pos |-> afterComma]
            ELSE [frame |-> f, pos |-> p]
      [] f.fn \in {"parseMiddleware", "parseAuthBlock"} ->
            [frame |-> [f EXCEPT !.ret = v], pos |-> p]
      [] OTHER ->
            [frame |-> CASE f.pending = "header" -> [f EXCEPT !.header = v]
                         [] f.pending = "body" -> [f EXCEPT !.body = v]
                         [] OTHER -> [f EXCEPT !.authenticate = v],
             pos |-> p]

\* return v to the caller on top of stk
ReturnValue(stk, v, toks, p) ==
    LET a == Accept(Top(stk), v, toks, p) IN
    [stack |-> ReplaceTop(stk, a.frame), pos |-> a.pos]

----------------------------------------------------------------------------
(* The parser's steps *)

\* a step of the parser that ends with the cursor at p
Update(p, d, proj, stk) ==
    /\ ctx' = [ctx EXCEPT ![Len(ctx)].pos = p]
    /\ diagnostics' = d
    /\ project' = proj
    /\ stack' = stk
    /\ tick' = 1 - tick
    /\ UNCHANGED <<files, policy, pc, result, startErrors, buildDir, emitted, last>>
    /\ UNCHANGED <<lexerVars, emitterVars>>

\* an exception nobody catches ends the run
Crash(exception, d) ==
    /\ pc' = "crashed"
    /\ result' = exception
    /\ diagnostics' = d
    /\ UNCHANGED <<files, policy, ctx, project, stack, startErrors, buildDir, emitted, last,
                   tick>>
    /\ UNCHANGED <<lexerVars, emitterVars>>

\* parseMiddleware, up to the option list
ParseMiddleware(stk, c) ==
    LET toks == CurToks
        m1 == MatchToken(toks, c, "UseKeyword", FALSE)
        m2 == MatchToken(toks, Cur(m1), "Identifier", FALSE)
        m3 == MatchToken(toks, Cur(m2), "SemicolonToken", TRUE)
    IN  IF Kind(toks, m2.pos) = "OpenParenToken"
        THEN Update(Jump(toks, m2.pos), m2.diags, project,
                    stk \o <<FUse(m2.tok.text), FOptions>>)
        ELSE Update(m3.pos, m3.diags,
                    [project EXCEPT !.middlewares =
                        Append(@, MiddlewareNode(m2.tok.text, <<>>))],
                    stk)

\* a project in which no identity is ever taken
RegisteredNever(blocks, id) == FALSE

\* routerNode.authBlocks[authBlock.id]: a block is registered under the identity
Registered(blocks, id) == HasKey(blocks, id)

\* parseAuthBlock from the statement's semicolon on, then the registration of the block
\* in parseRouterChildren
FinishAuthBlock(stk, type, body, alias, c) ==
    LET toks == CurToks
        m == MatchToken(toks, c, "SemicolonToken", TRUE)
        source == GetKey(body, "source")
        field == GetKey(body, "field")
        access == GetKey(body, "defaultAccess")
        node == AuthBlockNode(type, source, field, StrV(alias),
                              IF Truthy(access) THEN access.s ELSE "public")
    IN  IF ~Truthy(source) \/ source \notin {StrV("header"), StrV("query"), StrV("body")}
        THEN Update(m.pos, ReportError(m.diags, "A auth block must have a source."),
                    project, stk)
        ELSE IF ~Truthy(field) \/ ~IsString(field)
        THEN Update(m.pos, ReportError(m.diags, "A auth block must have a field."),
                    project, stk)
        ELSE IF Truthy(access) /\ access \notin {StrV("public"), StrV("authenticated")}
        THEN Update(m.pos,
                    ReportError(m.diags, "A auth block must have a valid defaultAccess."),
                    project, stk)
        ELSE IF Registered(project.authBlocks, AuthBlockId(node))
        THEN Update(m.pos, ReportError(m.diags, "auth block already exists."), project, stk)
        ELSE Update(m.pos, m.diags,
                    [project EXCEPT !.authBlocks = SetKey(@, AuthBlockId(node), node)], stk)

\* parseAuthBlock, up to the option list
ParseAuthBlock(stk, c) ==
    LET toks == CurToks
        m == MatchToken(toks, [c EXCEPT !.pos = Jump(toks, c.pos)], "Identifier", FALSE)
        type == m.tok.text
        a == MatchToken(toks, [pos |-> Jump(toks, m.pos), diags |-> m.diags],
                        "Identifier", FALSE)
    IN  IF type \notin AuthTypes
        THEN Update(m.pos, ReportError(m.diags, "auth type does not exist."), project, stk)
        ELSE IF Kind(toks, m.pos) = "OpenParenToken"
        THEN Update(Jump(toks, m.pos), m.diags, project,
                    stk \o <<FAuth(type, "", "body"), FOptions>>)
        ELSE IF Kind(toks, m.pos) = "AsKeyword"
        THEN IF Kind(toks, a.pos) = "OpenParenToken"
             THEN Update(Jump(toks, a.pos), a.diags, project,
                         stk \o <<FAuth(type, a.tok.text, "alias"), FOptions>>)
             ELSE Update(a.pos, ReportError(a.diags, "A auth block must have a body."),
                         project, stk)
        ELSE FinishAuthBlock(stk, type, <<>>, "", Cur(m))

\* include and _include, up to parser.parseParentNode(parent)
Include(stk, c) ==
    LET toks == CurToks
        m1 == MatchToken(toks, c, "IncludeKeyword", FALSE)
        m2 == MatchToken(toks, Cur(m1), "StringLiteral", FALSE)
        m3 == MatchToken(toks, Cur(m2), "SemicolonToken", TRUE)
        path == m2.tok.value
    IN  IF IsUndefined(path)
        THEN Crash("TypeError", m3.diags)
        ELSE IF path.s \notin DOMAIN files
        THEN Crash("NotFound", m3.diags)
        ELSE IF Len(ctx) >= MaxIncludeDepth
        THEN Crash("RangeError", m3.diags)
        ELSE /\ ctx' = Append([ctx EXCEPT ![Len(ctx)].pos = m3.pos],
                              [file |-> path.s, pos |-> 0, hasProject |-> FALSE])
             /\ diagnostics' = m3.diags
             /\ stack' = Append(stk, FParent(TRUE))
             /\ tick' = 1 - tick
             /\ UNCHANGED <<files, policy, project, pc, result, startErrors, buildDir,
                            emitted, last>>
             /\ UNCHANGED <<lexerVars, emitterVars>>

\* parseRouterChildren(routerNode), for the loop on top of stk with the cursor at c.pos
ParseRouterChildren(stk, c) ==
    LET toks == CurToks
        k == Kind(toks, c.pos)
        isProject == IsProjectNode(stk)
        method == ParseMethod(toks, c)
        routePath == ParsePath(toks, Cur(method))
        router == MatchToken(toks, c, "RouterKeyword", FALSE)
        routerPath == ParsePath(toks, Cur(router))
    IN  CASE k = "UseKeyword" ->
                IF isProject
                THEN ParseMiddleware(stk, c)
                ELSE Update(c.pos,
                            ReportError(c.diags, "use can only be used in the project node."),
                            project, stk)
          [] k \in MethodKinds ->
                Update(routePath.pos, routePath.diags, project,
                       Append(stk, FRoute(method.method, routePath.node)))
          [] k = "RouterKeyword" ->
                Update(routerPath.pos, routerPath.diags, project,
                       Append(stk, FRouter(routerPath.node)))
          [] k = "IncludeKeyword" -> Include(stk, c)
          [] k = "AuthKeyword" ->
                IF isProject
                THEN ParseAuthBlock(stk, c)
                ELSE Update(c.pos,
                            ReportError(c.diags, "auth can only be used in the project node."),
                            project, stk)
          [] OTHER -> Update(c.pos, c.diags, project, stk)

\* `if (this._context.currentToken === start) this._context.jump()` of the iteration
\* before this one (start is -1 when there was none, or no check)
AfterIteration(f, toks, p) ==
    IF f.start # -1 /\ SameToken(toks, p, f.start) THEN Jump(toks, p) ELSE p

\* a Parser.parse that returns the project whatever the policy and the sink say
ParseResultAlways(pol, currentErrorCount, errorCount) == "project"

\* Parser.parse, after parseProject: no project under CancelParsingOnFirstError when
\* the sink holds more errors than before
ParseResult(pol, currentErrorCount, errorCount) ==
    IF pol = "CancelParsingOnFirstError" /\ errorCount > currentErrorCount
    THEN "undefined" ELSE "project"

\* Parser.parse, parseProject and parseTarget, up to the loop of parseParentNode
Parse ==
    /\ pc = "start"
    /\ LET t == ParseTarget(CurToks, CurCursor) IN
        /\ startErrors' = ErrorCount(diagnostics)
        /\ project' = ProjectNode(t.target)
        /\ ctx' = [ctx EXCEPT ![1].pos = t.pos, ![1].hasProject = TRUE]
        /\ diagnostics' = t.diags
        /\ stack' = <<FParent(FALSE)>>
        /\ pc' = "parsing"
    /\ UNCHANGED <<files, policy, result, buildDir, emitted, last, tick>>
    /\ UNCHANGED <<lexerVars, emitterVars>>

\* one iteration of the loop of parseParentNode; at its end, the return to
\* Parser.parse (the entry file) or to Parser.include (an included file)
ParseParentNode ==
    /\ TopIs("parseParentNode")
    /\ LET f == Top(stack)
           toks == CurToks
           p == AfterIteration(f, toks, CurPos)
       IN  IF HasNextToken(toks, p)
           THEN ParseRouterChildren(ReplaceTop(stack, [f EXCEPT !.start = p]),
                                    [pos |-> p, diags |-> diagnostics])
           ELSE IF f.include
           THEN /\ ctx' = Pop(ctx)
                /\ stack' = Pop(stack)
                /\ tick' = 1 - tick
                /\ UNCHANGED <<files, policy, diagnostics, project, pc, result, startErrors,
                               buildDir, emitted, last>>
                /\ UNCHANGED <<lexerVars, emitterVars>>
           ELSE /\ ctx' = [ctx EXCEPT ![1].pos = p, ![1].hasProject = FALSE]
                /\ stack' = Pop(stack)
                /\ pc' = "parsed"
                /\ result' = ParseResult(policy, startErrors, ErrorCount(diagnostics))
                /\ UNCHANGED <<files, policy, diagnostics, project, startErrors, buildDir,
                               emitted, last, tick>>
                /\ UNCHANGED <<lexerVars, emitterVars>>

\* parseMiddleware, after the option list
ParseMiddlewareEnd ==
    /\ TopIs("parseMiddleware")
    /\ LET f == Top(stack)
           m == MatchToken(CurToks, CurCursor, "SemicolonToken", TRUE)
       IN  Update(m.pos, m.diags,
                  [project EXCEPT !.middlewares = Append(@, MiddlewareNode(f.name, f.ret.o))],
                  Pop(stack))

\* parseAuthBlock, after the option list
ParseAuthBlockEnd ==
    /\ TopIs("parseAuthBlock")
    /\ LET f == Top(stack)
           toks == CurToks
           a == MatchToken(toks, [pos |-> Jump(toks, CurPos), diags |-> diagnostics],
                           "Identifier", FALSE)
       IN  IF f.phase = "body" /\ Kind(toks, CurPos) = "AsKeyword"
           THEN FinishAuthBlock(Pop(stack), f.type, f.ret.o, a.tok.text, Cur(a))
           ELSE FinishAuthBlock(Pop(stack), f.type, f.ret.o, f.alias, CurCursor)

\* one iteration of an option loop whose frame f expects a value at m.pos, the key read
OptionValue(f, m) ==
    LET toks == CurToks
        k == Kind(toks, m.pos)
        v == ParseScalarOptionValue(toks, Cur(m))
        a == Accept(f, v.value, toks, v.pos)
    IN  CASE k = "OpenBraceToken" ->
                Update(Jump(toks, m.pos), m.diags, project,
                       Append(ReplaceTop(stack, f), FObject))
          [] k = "OpenBracketToken" ->
                Update(Jump(toks, m.pos), m.diags, project,
                       Append(ReplaceTop(stack, f), FArray))
          [] OTHER -> Update(a.pos, v.diags, project, ReplaceTop(stack, a.frame))

\* the end of an option loop: jump over the closing token and return the value
OptionReturn(v) ==
    LET r == ReturnValue(Pop(stack), v, CurToks, Jump(CurToks, CurPos)) IN
    Update(r.pos, diagnostics, project, r.stack)

\* `key: value` of parseMiddlewareOptions and parseMiddlewareOptionObject
OptionPair(f) ==
    LET toks == CurToks
        m1 == MatchToken(toks, CurCursor, "Identifier", FALSE)
        m2 == MatchToken(toks, Cur(m1), "ColonToken", FALSE)
    IN  OptionValue([f EXCEPT !.key = m1.tok.text], m2)

\* one iteration of the loop of parseMiddlewareOptions
ParseMiddlewareOptions ==
    /\ TopIs("parseMiddlewareOptions")
    /\ IF Kind(CurToks, CurPos) # "CloseParenToken"
       THEN OptionPair(Top(stack))
       ELSE OptionReturn(ObjV(Top(stack).acc))

\* one iteration of the loop of parseMiddlewareOptionObject
ParseMiddlewareOptionObject ==
    /\ TopIs("parseMiddlewareOptionObject")
    /\ IF Kind(CurToks, CurPos) # "CloseBraceToken"
       THEN OptionPair(Top(stack))
       ELSE OptionReturn(ObjV(Top(stack).acc))

\* one iteration of the loop of parseMiddlewareOptionArray
ParseMiddlewareOptionArray ==
    /\ TopIs("parseMiddlewareOptionArray")
    /\ IF Kind(CurToks, CurPos) # "CloseBracketToken"
       THEN OptionValue(Top(stack), CurCursor)
       ELSE OptionReturn(ArrV(Top(stack).acc))

\* a clause with roles that leaves the flag of its auth block as it is
KeepAuthorizationFlag(proj, authBlock) == proj

\* authBlockNode.isAuthorizationInUse = true
SetAuthorizationInUse(proj, authBlock) ==
    [proj EXCEPT !.authBlocks =
        SetKey(@, authBlock, [GetKey(@, authBlock) EXCEPT !.isAuthorizationInUse = TRUE])]

\* parseAuthenticateClause, up to the loop over the roles in brackets.  out is "value"
\* (the clause, or undefined), "roles" (the loop is entered) or "TypeError" (the parser
\* of an included file has no _currentProjectNode)
ParseAuthenticateClause(toks, c, proj, hasProject) ==
    LET isId == Kind(toks, c.pos) = "Identifier"
        m == IF isId THEN MatchToken(toks, c, "Identifier", FALSE)
             ELSE [tok |-> Tok("Identifier", ""), pos |-> c.pos, diags |-> c.diags]
        blocks == proj.authBlocks
        first == IF Len(blocks) > 0 THEN blocks[1].k ELSE ""
        authBlock == IF m.tok.text = "" THEN first ELSE m.tok.text
        p1 == Jump(toks, m.pos)
        inUse == SetAuthorizationInUse(proj, authBlock)
        fail(msg) == [out |-> "value", value |-> Undefined, pos |-> m.pos,
                      diags |-> ReportError(m.diags, msg), project |-> proj]
    IN  IF ~hasProject
        THEN [out |-> "TypeError", diags |-> m.diags]
        ELSE IF ~isId /\ Len(blocks) > 1
        THEN fail("Expected token")
        ELSE IF authBlock = ""
        THEN fail("No default auth block found.")
        ELSE IF ~HasKey(blocks, authBlock)
        THEN fail("No auth block found.")
        ELSE IF Kind(toks, m.pos) # "WithKeyword"
        THEN [out |-> "value", value |-> AuthenticateClauseNode(authBlock, Undefined),
              pos |-> m.pos, diags |-> m.diags, project |-> proj]
        ELSE IF Kind(toks, p1) = "StringLiteral"
        THEN [out |-> "value",
              value |-> AuthenticateClauseNode(authBlock, ArrV(<<Peek(toks, p1).text>>)),
              pos |-> Jump(toks, p1), diags |-> m.diags, project |-> inUse]
        ELSE IF Kind(toks, p1) = "OpenBracketToken"
        THEN [out |-> "roles", authBlock |-> authBlock, pos |-> Jump(toks, p1),
              diags |-> m.diags, project |-> inUse]
        ELSE [out |-> "value", value |-> Undefined, pos |-> p1,
              diags |-> ReportError(m.diags, "Expected token"), project |-> inUse]

ClauseKinds == {"HeaderKeyword", "BodyKeyword", "AuthenticateKeyword"}

\* the body of the loop over the header, body and authenticate clauses of a route or a
\* router whose frame is f, the cursor at p on the keyword; checked says whether the
\* iteration ends with the `currentToken === start` check
Clause(f, p, checked) ==
    LET toks == CurToks
        k == Kind(toks, p)
        p1 == Jump(toks, p)
        g == [f EXCEPT !.start = IF checked THEN p1 ELSE -1,
                       !.pending = IF k = "HeaderKeyword" THEN "header"
                                   ELSE IF k = "BodyKeyword" THEN "body"
                                   ELSE "authenticate"]
        a == ParseAuthenticateClause(toks, [pos |-> p1, diags |-> diagnostics], project,
                                     ctx[Len(ctx)].hasProject)
    IN  IF k # "AuthenticateKeyword"
        THEN IF Kind(toks, p1) = "OpenParenToken"
             THEN Update(Jump(toks, p1), diagnostics, project,
                         Append(ReplaceTop(stack, g), FOptions))
             ELSE Update(p1, diagnostics, project,
                         ReplaceTop(stack, Accept(g, ObjV(<<>>), toks, p1).frame))
        ELSE CASE a.out = "TypeError" -> Crash("TypeError", a.diags)
               [] a.out = "roles" ->
                    Update(a.pos, a.diags, a.project,
                           Append(ReplaceTop(stack, g), FRoles(a.authBlock)))
               [] OTHER ->
                    Update(a.pos, a.diags, a.project,
                           ReplaceTop(stack, Accept(g, a.value, toks, a.pos).frame))

\* one iteration of the loop over the roles of `with [ ... ]`
ParseAuthorization ==
    /\ TopIs("parseAuthenticateClause")
    /\ LET f == Top(stack)
           toks == CurToks
           m == MatchToken(toks, CurCursor, "StringLiteral", FALSE)
           r == ReturnValue(Pop(stack),
                            AuthenticateClauseNode(f.authBlock, ArrV(f.authorization)),
                            toks, Jump(toks, CurPos))
       IN  IF Kind(toks, CurPos) \notin {"CloseBracketToken", "EndOfFileToken"}
           THEN Update(IF Kind(toks, m.pos) = "CommaToken" THEN Jump(toks, m.pos) ELSE m.pos,
                       m.diags, project,
                       ReplaceTop(stack,
                                  [f EXCEPT !.authorization =
                                              IF Len(@) < MaxRoles
                                              THEN Append(@, m.tok.text) ELSE @]))
           ELSE Update(r.pos, diagnostics, project, r.stack)

\* one iteration of the clause loop of parseRoute; at its end, the rest of parseRoute
\* and routerNode.routes.push
ParseRoute ==
    /\ TopIs("parseRoute")
    /\ LET f == Top(stack)
           toks == CurToks
           p == AfterIteration(f, toks, CurPos)
           m == MatchToken(toks, [pos |-> p, diags |-> diagnostics], "SemicolonToken", TRUE)
           r == PushRoute(Pop(stack), project, RouteNode(f))
       IN  IF Kind(toks, p) \in ClauseKinds
           THEN Clause(f, p, TRUE)
           ELSE Update(m.pos, m.diags, r.project, r.stack)

\* one iteration of the clause loop of parseRouter; at its end, the opening brace
ParseRouter ==
    /\ TopIs("parseRouter")
    /\ Top(stack).phase = "clauses"
    /\ LET f == Top(stack)
           toks == CurToks
           p == AfterIteration(f, toks, CurPos)
           m == MatchToken(toks, [pos |-> p, diags |-> diagnostics], "OpenBraceToken", FALSE)
       IN  IF Kind(toks, p) \in ClauseKinds
           THEN Clause(f, p, Kind(toks, p) # "AuthenticateKeyword")
           ELSE Update(m.pos, m.diags, project,
                       ReplaceTop(stack, [f EXCEPT !.phase = "body", !.start = -1]))

\* one iteration of the loop over the children of a router; at its end, the closing
\* brace and routerNode.routers.push
ParseRouterBody ==
    /\ TopIs("parseRouter")
    /\ Top(stack).phase = "body"
    /\ LET f == Top(stack)
           toks == CurToks
           p == AfterIteration(f, toks, CurPos)
           m == MatchToken(toks, [pos |-> p, diags |-> diagnostics], "CloseBraceToken", FALSE)
           r == PushRouter(Pop(stack), project, RouterNode(f))
       IN  IF Kind(toks, p) \notin {"CloseBraceToken", "EndOfFileToken"}
           THEN ParseRouterChildren(ReplaceTop(stack, [f EXCEPT !.start = p]),
                                    [pos |-> p, diags |-> diagnostics])
           ELSE Update(m.pos, m.diags, r.project, r.stack)

----------------------------------------------------------------------------
(* The target plugins: what they emit for each route of a project.  An entry of the  *)
(* output is for the route at [routers |-> the child indices from the project down to *)
(* its router, route |-> its index there]: the authenticate clauses whose code runs   *)
(* for a request of the route, in order, and the header and body keys that are        *)
(* enforced, each with its type.  The schemas of the inputs give type keywords only.  *)

\* `schema || {}`
Schema(schema) == IF IsUndefined(schema) THEN << >> ELSE schema.o

\* {...a, ...b}
RECURSIVE Spread(_, _)
Spread(a, b) == IF b = << >> THEN a ELSE Spread(SetKey(a, b[1].k, b[1].v), Tail(b))

\* Object.values(projectNode.authBlocks)
AuthBlocks(proj) == [i \in 1..Len(proj.authBlocks) |-> proj.authBlocks[i].v]

\* the blocks for which isDefaultAccessPublic === false, in the order they are handled
Defaults(proj) == SelectSeq(AuthBlocks(proj), LAMBDA b : ~b.isDefaultAccessPublic)

\* the ids for which a handler is registered (_authHandlers, _authenticatorData)
Handlers(proj) == {AuthBlockId(AuthBlocks(proj)[i]) : i \in 1..Len(proj.authBlocks)}

\* handleAuthBlock and compileAuthBlockNode for the blocks in turn, up to the first that
\* throws.  The name of a block with an empty id throws a TypeError
\* (id[0].toUpperCase()); a second block of default access "authenticated" throws an
\* AbortError.  The JavaScript plugin looks at the default access first, the Java plugin
\* at the name.  seen: a default block was handled before.
RECURSIVE HandleAuthBlocks(_, _, _)
HandleAuthBlocks(blocks, seen, target) ==
    IF blocks = << >> THEN "handled"
    ELSE LET second == ~blocks[1].isDefaultAccessPublic /\ seen
             nameless == AuthBlockId(blocks[1]) = ""
         IN  IF second /\ (target = "JavaScript_ExpressJS" \/ ~nameless) THEN "AbortError"
             ELSE IF nameless THEN "TypeError"
             ELSE HandleAuthBlocks(Tail(blocks), seen \/ ~blocks[1].isDefaultAccessPublic,
                                   target)

\* ProjectNode extends RouterNode: the project as the router it is
AsRouter(proj) ==
    [path |-> [path |-> <<"/">>, alias |-> Undefined, queryParameters |-> << >>],
     header |-> Undefined, body |-> Undefined, authenticate |-> Undefined,
     routes |-> proj.routes, routers |-> proj.routers]

NothingMounted == [authenticates |-> << >>, header |-> << >>, body |-> << >>]

\* generateValidationCode, header: a check for each key whose value is no object
HeaderChecks(header) ==
    SelectSeq(Schema(header), LAMBDA e : e.v.t \notin {"object", "array", "global"})

\* generateValidationCode, body: a check for each key
BodyChecks(body) == Schema(body)

\* the clause a node has a handler for
HandledClause(node, proj) ==
    IF node.authenticate # Undefined /\ node.authenticate.authBlock \in Handlers(proj)
    THEN <<node.authenticate>> ELSE << >>

\* JavaScriptExpressJsTargetPlugin._defaultAuthenticate once every block is handled
DefaultAuthenticate(proj) ==
    IF Defaults(proj) = << >> THEN Undefined ELSE StrV(AuthBlockId(Defaults(proj)[1]))

\* handleRoute: the checks in the handler of the route, in the order they are emitted
RouteChecks(route, proj) ==
    (IF HandledClause(route, proj) # << >>
     THEN <<"authenticate">>
          \o (IF route.authenticate.authorization # Undefined THEN <<"authorize">> ELSE << >>)
     ELSE IF Truthy(DefaultAuthenticate(proj)) THEN <<"authenticate">> ELSE << >>)
    \o (IF route.header # Undefined THEN <<"header">> ELSE << >>)
    \o (IF Len(route.path.queryParameters) > 0 THEN <<"query">> ELSE << >>)
    \o (IF route.body # Undefined THEN <<"body">> ELSE << >>)

\* handleRoute: the route's own clause, else the default block; the route's own schemas.
\* mounted is what the routers around the route run first.
HandleRoute(route, at, mounted, proj) ==
    LET own == HandledClause(route, proj)
        default == DefaultAuthenticate(proj)
    IN  [at |-> at,
         authenticates |->
            mounted.authenticates
            \o (IF own # << >> THEN own
                ELSE IF Truthy(default)
                THEN <<AuthenticateClauseNode(default.s, Undefined)>> ELSE << >>),
         header |-> mounted.header \o HeaderChecks(route.header),
         body |-> mounted.body \o BodyChecks(route.body),
         checks |-> RouteChecks(route, proj)]

RECURSIVE HandleRouter(_, _, _, _, _)
RECURSIVE HandleRouters(_, _, _, _, _)

\* handleRouter: a router that is not the app mounts its validation and its
\* authentication with routerName.use(...), in front of its routers and its routes
HandleRouter(routerNode, at, isApp, mounted, proj) ==
    LET all == IF isApp THEN mounted
               ELSE [authenticates |-> mounted.authenticates \o HandledClause(routerNode, proj),
                     header |-> mounted.header \o HeaderChecks(routerNode.header),
                     body |-> mounted.body \o BodyChecks(routerNode.body)]
    IN  HandleRouters(routerNode, at, 1, all, proj)
        \o [j \in 1..Len(routerNode.routes) |->
                HandleRoute(routerNode.routes[j], [routers |-> at, route |-> j], all, proj)]

\* for (const router of routerNode.routers), from the i-th on
HandleRouters(routerNode, at, i, mounted, proj) ==
    IF i > Len(routerNode.routers) THEN << >>
    ELSE HandleRouter(routerNode.routers[i], Append(at, i), FALSE, mounted, proj)
         \o HandleRouters(routerNode, at, i + 1, mounted, proj)

\* JavaSpringBootTargetPlugin._defaultAuthenticate once every block is compiled
DefaultClause(proj) ==
    IF Defaults(proj) = << >> THEN Undefined
    ELSE AuthenticateClauseNode(AuthBlockId(Defaults(proj)[1]), Undefined)

\* compileRouteNode: the clauses handed down and the route's own, each applied if its
\* authenticator is known; the schemas handed down with the route's own spread over them
CompileRouteNode(node, at, authenticates, headerValidations, bodyValidations, proj) ==
    LET all == authenticates
               \o (IF node.authenticate # Undefined THEN <<node.authenticate>> ELSE << >>)
    IN  [at |-> at,
         authenticates |-> SelectSeq(all, LAMBDA a : a.authBlock \in Handlers(proj)),
         header |-> SelectSeq(Spread(headerValidations, Schema(node.header)),
                              LAMBDA e : IsString(e.v)),
         body |-> Spread(bodyValidations, Schema(node.body))]

RECURSIVE CompileRouterNode(_, _, _, _, _, _)
RECURSIVE CompileRouters(_, _, _, _, _, _, _)

\* compileRouterNode.  authenticates is the array of the caller itself
\* (`preAuthenticates || []`): what the router and the routers below it push is seen
\* by the caller afterwards, so the array is returned with the entries.  A clause is
\* never found in the array by `===`: every node is visited once.
CompileRouterNode(node, at, preAuthenticates, preHeaderValidations, preBodyValidations, proj) ==
    LET headerValidations == Spread(preHeaderValidations, Schema(node.header))
        bodyValidations == Spread(preBodyValidations, Schema(node.body))
        withDefault == IF preAuthenticates = << >> /\ DefaultClause(proj) # Undefined
                       THEN <<DefaultClause(proj)>> ELSE preAuthenticates
        authenticates == IF node.authenticate # Undefined
                         THEN Append(withDefault, node.authenticate) ELSE withDefault
        below == CompileRouters(node, at, 1, authenticates, headerValidations,
                                bodyValidations, proj)
    IN  [entries |->
            below.entries
            \o [j \in 1..Len(node.routes) |->
                    CompileRouteNode(node.routes[j], [routers |-> at, route |-> j],
                                     below.authenticates, headerValidations,
                                     bodyValidations, proj)],
         authenticates |-> below.authenticates]

\* node.routers.forEach(router => this.compileRouterNode(router, ...)), from the i-th on
CompileRouters(node, at, i, authenticates, headerValidations, bodyValidations, proj) ==
    IF i > Len(node.routers) THEN [entries |-> << >>, authenticates |-> authenticates]
    ELSE LET first == CompileRouterNode(node.routers[i], Append(at, i), authenticates,
                                        headerValidations, bodyValidations, proj)
             rest == CompileRouters(node, at, i + 1, first.authenticates,
                                    headerValidations, bodyValidations, proj)
         IN  [entries |-> first.entries \o rest.entries, authenticates |-> rest.authenticates]

\* node.routers.forEach(router => this.compileRouterNode(router)), from the i-th on:
\* each router with an array of its own
RECURSIVE CompileTopRouters(_, _)
CompileTopRouters(proj, i) ==
    IF i > Len(proj.routers) THEN << >>
    ELSE CompileRouterNode(proj.routers[i], <<i>>, << >>, << >>, << >>, proj).entries
         \o CompileTopRouters(proj, i + 1)

\* compileProjectNode, after the auth blocks
CompileProjectNode(proj) ==
    IF Len(proj.routes) <= 0
    THEN CompileTopRouters(proj, 1)
    ELSE CompileRouterNode(AsRouter(proj), << >>, << >>, << >>, << >>, proj).entries

\* compileApiKeyAuth and compileBearerAuth: the variables the check of a block reads
\* (`vars`).  An API-Key block whose source is the body is logged as not supported
\* and gets none; its check is generated and registered all the same.
Credentials(block) ==
    IF block.type = "API-Key"
    THEN IF block.source \in {StrV("query"), StrV("header")} THEN <<"apiKey">> ELSE << >>
    ELSE <<"jwt">>

\* what the plugin for the target of the project emits
Emit(proj) ==
    IF proj.target = "JavaScript_ExpressJS"
    THEN HandleRouter(AsRouter(proj), << >>, TRUE, NothingMounted, proj)
    ELSE CompileProjectNode(proj)

----------------------------------------------------------------------------
(* The driver: run, around the CompilationContext that lexes and parses the entry file *)

Targets == {"JavaScript_ExpressJS", "Java_SpringBoot"}

\* CompilationContext parses with ParsingPolicy.CancelParsingOnFirstError; a parser
\* with another policy is one used without the driver
Driven == policy = "CancelParsingOnFirstError"

DriverStep(next) ==
    /\ pc' = next
    /\ UNCHANGED <<files, policy, ctx, diagnostics, project, stack, result, startErrors, last,
                   tick>>
    /\ UNCHANGED <<lexerVars, middlewareOptions, hash, javaVars>>

\* !context.isIndexFilePrepared: print the diagnostics, "Aborting."
Abort ==
    /\ pc = "parsed" /\ Driven
    /\ result = "undefined"
    /\ DriverStep("aborted")
    /\ UNCHANGED <<buildDir, emitted, output>>

\* a driver that does not look at isIndexFilePrepared before context.initBuildDir()
InitBuildDirUnprepared ==
    /\ pc = "parsed" /\ Driven
    /\ buildDir' = TRUE
    /\ DriverStep("built")
    /\ UNCHANGED <<emitted, output>>

\* context.initBuildDir()
InitBuildDir ==
    /\ pc = "parsed" /\ Driven
    /\ result = "project"
    /\ buildDir' = TRUE
    /\ DriverStep("built")
    /\ UNCHANGED <<emitted, output>>

\* targetPlugin.compile(context).  The name of an auth block with an empty id throws a
\* TypeError, which run throws on; a second default auth block throws an AbortError;
\* otherwise the plugin emits, and ends or throws an AbortError for another reason.
Compile ==
    /\ pc = "built"
    /\ project.target \in Targets
    /\ emitted' = TRUE
    /\ LET thrown == HandleAuthBlocks(AuthBlocks(project), FALSE, project.target) IN
       IF thrown = "TypeError"
       THEN output' = << >> /\ DriverStep("crashed")
       ELSE IF thrown = "AbortError"
       THEN output' = << >> /\ DriverStep("aborted")
       ELSE /\ output' = Emit(project)
            /\ \E next \in {"finished", "aborted"} : DriverStep(next)
    /\ UNCHANGED buildDir

\* runExternalCompiler(context), for a target no plugin is for: no such target is
\* installed, or its compiler is run and succeeds or fails
RunExternalCompiler ==
    /\ pc = "built"
    /\ project.target \notin Targets
    /\ \/ DriverStep("aborted") /\ UNCHANGED emitted
       \/ emitted' = TRUE /\ \E next \in {"finished", "aborted"} : DriverStep(next)
    /\ UNCHANGED <<buildDir, output>>

----------------------------------------------------------------------------
(* The inputs: the files of a project, lexed *)

SeqsUpTo(S, n) == UNION {[1..k -> S] : k \in 0..n}

TargetJS == <<TargetKw, Id("JavaScript_ExpressJS"), Semi>>
TargetT == <<TargetKw, Id("T"), Semi>>

GetRoute(name) == <<GetKw, Slash, Id(name), Semi>>

\* the elements of seqs, each two with sep between them
RECURSIVE Join(_, _)
Join(seqs, sep) ==
    IF Len(seqs) = 0 THEN << >>
    ELSE IF Len(seqs) = 1 THEN seqs[1]
    ELSE seqs[1] \o sep \o Join(Tail(seqs), sep)

Pair(key, value) == <<Id(key), Colon, value>>

\* auth <type> [as <alias>] ( <pairs> ) ;   a pair that is << >> is left out
AuthStmt(type, alias, pairs) ==
    <<AuthKw, Id(type)>> \o (IF alias = "" THEN << >> ELSE <<AsKw, Id(alias)>>)
    \o <<OpenParen>> \o Join(SelectSeq(pairs, LAMBDA pr : pr # << >>), <<Comma>>)
    \o <<CloseParen, Semi>>

\* auth Bearer [as <alias>] (source: header, field: "f");
AuthBearer(alias) ==
    AuthStmt("Bearer", alias, <<Pair("source", HeaderKw), Pair("field", Str("f"))>>)

Sources == {<< >>, Pair("source", HeaderKw), Pair("source", QueryKw), Pair("source", BodyKw),
            Pair("source", Str("x")), Pair("source", Num(1))}

Fields == {<< >>, Pair("field", Str("f")), Pair("field", Num(1))}

Accesses == {<< >>, Pair("defaultAccess", PublicKw), Pair("defaultAccess", AuthenticatedKw),
             Pair("defaultAccess", Str("x")), Pair("defaultAccess", Num(0)),
             Pair("defaultAccess", Bool(FALSE))}

\* what comes before the auth statement of an entry file
Earlier == {<< >>, AuthBearer(""), AuthBearer("b")}

UseOpen == <<UseKw, Id("cors"), OpenParen>>

\* the tokens an option list is made of
OptionTokens ==
    {Id("a"), Colon, Comma, CloseParen, CloseBrace, CloseBracket, Bool(FALSE), Str("s")}

\* statements cut inside an option list, object or array
OptionPrefixes ==
    {UseOpen,
     UseOpen \o <<Id("o"), Colon>>,
     UseOpen \o <<Id("o"), Colon, OpenBrace>>,
     UseOpen \o <<Id("o"), Colon, OpenBrace, Id("k"), Colon>>,
     UseOpen \o <<Id("o"), Colon, OpenBrace, Id("k"), Colon, Num(0)>>,
     UseOpen \o <<Id("o"), Colon, OpenBracket>>,
     UseOpen \o <<Id("o"), Colon, OpenBracket, Str("")>>,
     UseOpen \o <<Id("o"), Colon, OpenBracket, At, Id("env"), Dot, Id("PORT")>>,
     <<GetKw, Slash, Id("x"), BodyKw, OpenParen, Id("n"), Colon, IntKw>>}

\* the tokens statements are made of
StatementTokens ==
    {UseKw, AuthKw, GetKw, Slash, Id("a"), Semi, CloseBrace, OpenParen}

StatementPrefixes ==
    {<< >>,
     <<RouterKw, Slash, Id("api"), OpenBrace>>,
     <<RouterKw, Slash, Id("api"), OpenBrace, RouterKw, Slash, Id("v"), OpenBrace>>,
     <<PostKw, Slash, Id("p"), Question, Id("q"), Equals, StringKw, Ampersand, Id("r")>>}

\* the tokens the clauses of a route or a router are made of
ClauseTokens ==
    {Id("b"), WithKw, OpenBracket, CloseBracket, Str("r"), Comma, HeaderKw, OpenBrace}

ClausePrefixes ==
    {AuthBearer("b") \o <<GetKw, Slash, Id("x"), AuthenticateKw>>,
     AuthBearer("b") \o <<GetKw, Slash, Id("x"), AuthenticateKw, Id("b"), WithKw>>,
     AuthBearer("") \o <<GetKw, Slash, Id("x"), AuthenticateKw>>,
     AuthBearer("b") \o AuthBearer("c") \o <<GetKw, Slash, Id("x"), AuthenticateKw>>,
     AuthBearer("b") \o <<RouterKw, Slash, Id("api"), AuthenticateKw>>,
     <<RouterKw, Slash, Id("api"), BodyKw>>}

\* entry files: a target, a statement list cut anywhere, the end of the file
FreeForm(prefix, rest) == TargetJS \o prefix \o rest \o <<EOF>>

IncludeStmt(file) == <<IncludeKw, Str(file), Semi>>

\* entry files that include "sub.ymr", at project scope and in a router
IncludingFiles ==
    {TargetJS \o GetRoute("a") \o IncludeStmt("sub.ymr") \o GetRoute("b") \o <<EOF>>,
     TargetT \o <<RouterKw, Slash, Id("api"), OpenBrace>> \o GetRoute("a")
        \o IncludeStmt("sub.ymr")
        \o <<RouterKw, Slash, Id("r"), OpenBrace, CloseBrace>> \o GetRoute("b")
        \o <<CloseBrace, EOF>>,
     TargetJS \o AuthBearer("b") \o <<RouterKw, Slash, Id("api"), OpenBrace>>
        \o IncludeStmt("sub.ymr") \o <<CloseBrace, EOF>>,
     TargetJS \o <<IncludeKw, Semi, EOF>>,
     TargetJS \o IncludeStmt("none.ymr") \o <<EOF>>}

SubFiles ==
    {<<EOF>>,
     GetRoute("x") \o <<EOF>>,
     GetRoute("x") \o <<RouterKw, Slash, Id("y"), OpenBrace>> \o GetRoute("z")
        \o <<CloseBrace>> \o GetRoute("w") \o <<EOF>>,
     GetRoute("x") \o IncludeStmt("lib.ymr") \o GetRoute("w") \o <<EOF>>,
     IncludeStmt("sub.ymr") \o <<EOF>>,
     IncludeStmt("lib.ymr") \o <<EOF>>,
     <<UseKw, Id("cors"), Semi>> \o AuthBearer("s") \o <<EOF>>,
     <<GetKw, Slash, Id("x"), AuthenticateKw, Semi, EOF>>}

LibFiles ==
    {<<EOF>>,
     GetRoute("l") \o <<RouterKw, Slash, Id("m"), OpenBrace, CloseBrace, EOF>>,
     IncludeStmt("main.ymr") \o <<EOF>>}

\* auth Bearer [as <alias>] (defaultAccess: authenticated, source: header, field: "f");
AuthDefault(alias) ==
    AuthStmt("Bearer", alias,
             <<Pair("defaultAccess", AuthenticatedKw), Pair("source", HeaderKw),
               Pair("field", Str("f"))>>)

\* entry files in which every statement ends with its semicolon: one statement of each
\* kind, and routes that end with a clause
StatementFiles ==
    {TargetT \o <<UseKw, Id("cors"), Semi>> \o AuthBearer("b") \o GetRoute("x")
        \o GetRoute("y") \o <<EOF>>,
     TargetT \o AuthBearer("b") \o <<GetKw, Slash, Id("x"), AuthenticateKw, Id("b"), Semi>>
        \o GetRoute("y") \o <<EOF>>,
     TargetT \o AuthBearer("b") \o <<GetKw, Slash, Id("x"), AuthenticateKw, Semi>>
        \o GetRoute("y") \o <<EOF>>}

\* entry files with two default auth blocks, with a clause and no auth block, and with
\* a query parameter given twice
SampleFiles ==
    {TargetJS \o AuthDefault("a") \o AuthDefault("b") \o GetRoute("x") \o <<EOF>>,
     TargetJS \o <<GetKw, Slash, Id("x"), AuthenticateKw, Semi, EOF>>,
     TargetJS \o <<PostKw, Slash, Id("p"), Question, Id("q"), Equals, StringKw,
                   Ampersand, Id("q"), Equals, IntKw, Semi, EOF>>}

\* well-formed option lists of literals, each with the mapping it denotes
OptionLists ==
    {[pairs |-> <<Pair("k", Str("s"))>>,
      options |-> <<[k |-> "k", v |-> StrV("s")]>>],
     [pairs |-> <<Pair("k", Num(0)), Pair("j", Str("s"))>>,
      options |-> <<[k |-> "k", v |-> NumV(0)], [k |-> "j", v |-> StrV("s")]>>],
     [pairs |-> <<Pair("k", Bool(FALSE))>>,
      options |-> <<[k |-> "k", v |-> BoolV(FALSE)]>>],
     [pairs |-> <<<<Id("o"), Colon, OpenBrace>> \o Pair("k", Str("")) \o <<CloseBrace>>>>,
      options |-> <<[k |-> "o", v |-> ObjV(<<[k |-> "k", v |-> StrV("")]>>)]>>],
     [pairs |-> <<<<Id("a"), Colon, OpenBracket, Bool(TRUE), Comma, Num(1), CloseBracket>>>>,
      options |-> <<[k |-> "a", v |-> ArrV(<<BoolV(TRUE), NumV(1)>>)]>>]}

\* use cors ( <pairs> ) ;
OptionFile(list) ==
    TargetJS \o UseOpen \o Join(list.pairs, <<Comma>>) \o <<CloseParen, Semi, EOF>>

OptionFiles == {OptionFile(list) : list \in OptionLists}

\* header ( <pairs> )  and  body ( <pairs> )
SchemaClause(keyword, pairs) ==
    <<keyword, OpenParen>> \o Join(pairs, <<Comma>>) \o <<CloseParen>>

\* entry files for a target plugin: nested routers and routes with schemas and clauses;
\* a default auth block beside clauses; a project whose routes are all in routers; a
\* router with a clause beside a router and a route without; a route with every
\* clause; an API-Key block that reads the body; an auth block without alias
PluginFiles ==
    {<<TargetKw, Id(t), Semi>> \o body \o <<EOF>> :
        t \in Targets,
        body \in
            {AuthBearer("b")
                \o <<RouterKw, Slash, Id("api")>>
                \o SchemaClause(HeaderKw, <<Pair("a", IntKw), Pair("c", StringKw)>>)
                \o SchemaClause(BodyKw, <<Pair("n", IntKw)>>)
                \o <<AuthenticateKw, Id("b"), OpenBrace>>
                \o <<RouterKw, Slash, Id("v")>>
                \o SchemaClause(HeaderKw, <<Pair("a", StringKw)>>) \o <<OpenBrace>>
                \o <<GetKw, Slash, Id("x")>> \o SchemaClause(HeaderKw, <<Pair("e", IntKw)>>)
                \o SchemaClause(BodyKw, <<Pair("n", StringKw)>>) \o <<Semi, CloseBrace>>
                \o <<GetKw, Slash, Id("y"), AuthenticateKw, Id("b"), Semi, CloseBrace>>
                \o GetRoute("z"),
             AuthDefault("d") \o AuthBearer("b")
                \o <<RouterKw, Slash, Id("api"), AuthenticateKw, Id("b"), OpenBrace>>
                \o GetRoute("x") \o <<CloseBrace>>
                \o <<GetKw, Slash, Id("y"), AuthenticateKw, Id("b"), Semi>>
                \o GetRoute("z"),
             AuthBearer("b")
                \o <<RouterKw, Slash, Id("api"), AuthenticateKw, Id("b"), OpenBrace>>
                \o GetRoute("x") \o <<CloseBrace>>
                \o <<RouterKw, Slash, Id("w")>>
                \o SchemaClause(HeaderKw, <<Pair("a", IntKw)>>) \o <<OpenBrace>>
                \o <<GetKw, Slash, Id("y")>> \o SchemaClause(HeaderKw, <<Pair("c", IntKw)>>)
                \o <<Semi, CloseBrace>>,
             AuthBearer("b")
                \o <<RouterKw, Slash, Id("api"), AuthenticateKw, Id("b"), OpenBrace>>
                \o GetRoute("x") \o <<CloseBrace>>
                \o <<RouterKw, Slash, Id("w"), OpenBrace>> \o GetRoute("y") \o <<CloseBrace>>
                \o GetRoute("z"),
             AuthBearer("b")
                \o <<PostKw, Slash, Id("p"), Question, Id("q"), Equals, StringKw>>
                \o SchemaClause(HeaderKw, <<Pair("a", IntKw)>>)
                \o SchemaClause(BodyKw, <<Pair("n", IntKw)>>)
                \o <<AuthenticateKw, Id("b"), WithKw, Str("r"), Semi>>,
             AuthStmt("API-Key", "k", <<Pair("source", BodyKw), Pair("field", Str("f"))>>)
                \o <<GetKw, Slash, Id("x"), AuthenticateKw, Id("k"), Semi>>,
             AuthBearer("") \o GetRoute("x")}}

\* the token sequence with the semicolons left out
Unterminated(toks) == SelectSeq(toks, LAMBDA t : t.kind # "SemicolonToken")

Project(main, sub, lib) ==
    [f \in {"main.ymr", "sub.ymr", "lib.ymr"} |->
        Place(CASE f = "main.ymr" -> main [] f = "sub.ymr" -> sub [] OTHER -> lib)]

ParsingPolicy == {"CancelParsingOnFirstError", "IgnoreErrors"}

NoLast == [op |-> "none"]

NoHash == [value |-> "none"]

NoBuilder == [name |-> "", isInterface |-> FALSE, imports |-> << >>, fields |-> << >>,
              innerClasses |-> << >>]

\* no DTO was compiled and no class is being built
JavaIdle ==
    /\ createdDtos = << >>
    /\ written = << >>
    /\ builder = NoBuilder

\* no plugin has run, and no mapping was hashed
EmitterIdle ==
    /\ output = << >>
    /\ middlewareOptions = << >>
    /\ hash = NoHash
    /\ JavaIdle

LexerIdle ==
    /\ text = << >>
    /\ position = 0
    /\ sourcePosition = 0
    /\ line = 1
    /\ tokens = << >>
    /\ lexpc = "idle"

\* new Parser(new DiagnosticSink(), policy, tokens) on the entry file
InitParser ==
    /\ policy \in ParsingPolicy
    /\ ctx = <<[file |-> "main.ymr", pos |-> 0, hasProject |-> FALSE]>>
    /\ diagnostics = << >>
    /\ project = ProjectNode("")
    /\ stack = << >>
    /\ pc = "start"
    /\ result = "none"
    /\ startErrors = 0
    /\ buildDir = FALSE
    /\ emitted = FALSE
    /\ last = NoLast
    /\ tick = 0
    /\ LexerIdle
    /\ EmitterIdle

\* A caller that has parsed an entry file of StatementFiles parses it once more with the
\* semicolons left out: new Parser(new DiagnosticSink(), policy, tokens).  The outcome
\* of the first parse is kept in last.
ParseUnterminated ==
    /\ pc = "parsed"
    /\ last = NoLast
    /\ \E f \in StatementFiles : files["main.ymr"] = Place(f)
    /\ last' = [op |-> "parse", project |-> project, diagnostics |-> diagnostics,
                result |-> result]
    /\ files' = [files EXCEPT !["main.ymr"] = Place(Unterminated(@))]
    /\ ctx' = <<[file |-> "main.ymr", pos |-> 0, hasProject |-> FALSE]>>
    /\ diagnostics' = << >>
    /\ project' = ProjectNode("")
    /\ stack' = << >>
    /\ pc' = "start"
    /\ result' = "none"
    /\ startErrors' = 0
    /\ UNCHANGED <<policy, buildDir, emitted, tick>>
    /\ UNCHANGED <<lexerVars, emitterVars>>

Init ==
    /\ \/ \E prefix \in OptionPrefixes, rest \in SeqsUpTo(OptionTokens, MaxLen) :
            files = Project(FreeForm(prefix, rest), <<EOF>>, <<EOF>>)
       \/ \E prefix \in StatementPrefixes, rest \in SeqsUpTo(StatementTokens, MaxLen) :
            files = Project(FreeForm(prefix, rest), <<EOF>>, <<EOF>>)
       \/ \E prefix \in ClausePrefixes, rest \in SeqsUpTo(ClauseTokens, MaxLen) :
            files = Project(FreeForm(prefix, rest), <<EOF>>, <<EOF>>)
       \/ \E main \in IncludingFiles, sub \in SubFiles, lib \in LibFiles :
            files = Project(main, sub, lib)
       \/ \E earlier \in Earlier, type \in {"Bearer", "API-Key", "Basic"}, alias \in {"", "b"},
             source \in Sources, field \in Fields, access \in Accesses :
            files = Project(TargetT \o earlier
                              \o AuthStmt(type, alias, <<access, source, field>>)
                              \o <<EOF>>,
                            <<EOF>>, <<EOF>>)
       \/ \E main \in StatementFiles \cup SampleFiles \cup PluginFiles \cup OptionFiles :
            files = Project(main, GetRoute("s") \o <<EOF>>, <<EOF>>)
    /\ InitParser

Next ==
    \/ Parse
    \/ ParseParentNode
    \/ ParseMiddlewareEnd
    \/ ParseAuthBlockEnd
    \/ ParseMiddlewareOptions
    \/ ParseMiddlewareOptionObject
    \/ ParseMiddlewareOptionArray
    \/ ParseAuthorization
    \/ ParseRoute
    \/ ParseRouter
    \/ ParseRouterBody
    \/ ParseUnterminated
    \/ Abort
    \/ InitBuildDir
    \/ Compile
    \/ RunExternalCompiler

Spec == Init /\ [][Next]_vars

----------------------------------------------------------------------------
(* Properties of Parser.parse and of the driver *)

CountKind(toks, kind) == Cardinality({i \in 1..Len(toks) : toks[i].kind = kind})

HasKind(toks, kind) == \E i \in 1..Len(toks) : toks[i].kind = kind

Includes(file) == HasKind(files[file], "IncludeKeyword")

Returned == pc \in {"parsed", "aborted", "built", "finished"}

ErrorsRecorded == ErrorCount(diagnostics) > startErrors

\* C1: Parser.parse returns no project exactly when its policy is
\* CancelParsingOnFirstError and at least one error was recorded during the parse,
\* in the entry file or in an included one; under IgnoreErrors it returns the
\* project whatever was recorded.
C1_ParsePolicy ==
    Returned =>
        /\ result \in {"undefined", "project"}
        /\ result = "undefined" <=> (policy = "CancelParsingOnFirstError" /\ ErrorsRecorded)

\* a cancelled parse whose only errors were recorded in an included file
C1_Witness ==
    /\ pc = "parsed"
    /\ policy = "CancelParsingOnFirstError"
    /\ ErrorsRecorded
    /\ result = "undefined"
    /\ Includes("main.ymr")
    /\ files["sub.ymr"][1].kind = "UseKeyword"

\* C2: in the driver, once the parse has recorded an error the build directory is
\* never initialised and no emitter is started: the only step after the parse is
\* the one to the abort.
C2_NoBuildAfterError ==
    /\ [](Driven /\ ErrorsRecorded =>
            ~buildDir /\ ~emitted /\ pc \notin {"built", "finished"})
    /\ [][Driven /\ pc = "parsed" /\ ErrorsRecorded => pc' = "aborted"]_vars

\* the driver has aborted a parse with errors
C2_Witness ==
    /\ pc = "aborted"
    /\ Driven
    /\ ErrorsRecorded
    /\ ~buildDir

\* C3: Parser.parse terminates on every token sequence that ends with the end of
\* file token and holds no include, because no loop of the parser runs an iteration
\* that consumes no token: each step of the parser moves the cursor to another
\* token or changes the call stack.  (A step that does neither is followed by the
\* same step for ever: the parser looks at nothing but the current token and its
\* call stack.)
C3_ParseTerminates ==
    [][pc = "parsing" /\ ~Includes("main.ymr") =>
            pc' # "parsing" \/ <<ctx, stack>>' # <<ctx, stack>>]_vars

\* C4: an include cycle ends the parse with an error about the cycle: no file is
\* entered while it is being parsed, and the call stack is never exhausted.
C4_IncludeCycleReported ==
    /\ \A i, j \in 1..Len(ctx) : i # j => ctx[i].file # ctx[j].file
    /\ ~(pc = "crashed" /\ result = "RangeError")

----------------------------------------------------------------------------
(* Include resolution against textual expansion *)

\* the routes and child routers of a node, by path, in order
RECURSIVE Shape(_)
Shape(node) ==
    [routes |-> [i \in 1..Len(node.routes) |-> node.routes[i].path.path],
     routers |-> [i \in 1..Len(node.routers) |->
                    [path |-> node.routers[i].path.path, body |-> Shape(node.routers[i])]]]

\* the index of the first semicolon of toks at i or after it
RECURSIVE NextSemi(_, _)
NextSemi(toks, i) ==
    IF i >= Len(toks) \/ toks[i].kind = "SemicolonToken" THEN i ELSE NextSemi(toks, i + 1)

\* What a statement list says when every `include "f";` is replaced by the text of
\* f: the routes and routers of the list of toks that starts at i, added to acc in
\* the order of the text, and the index after the list.
RECURSIVE Expanded(_, _, _)
Expanded(toks, i, acc) ==
    LET k == toks[i].kind
        inner == Expanded(toks, i + 4, [routes |-> <<>>, routers |-> <<>>])
        included == Expanded(files[toks[i + 1].value.s], 1, acc)
    IN  IF k \in {"EndOfFileToken", "CloseBraceToken"}
        THEN [acc |-> acc, next |-> i + 1]
        ELSE IF k = "GetMethodKeyword"
        THEN Expanded(toks, NextSemi(toks, i) + 1,
                      [acc EXCEPT !.routes =
                            Append(@, <<toks[i + 1].text, toks[i + 2].text>>)])
        ELSE IF k = "RouterKeyword"
        THEN Expanded(toks, inner.next,
                      [acc EXCEPT !.routers =
                            Append(@, [path |-> <<toks[i + 1].text, toks[i + 2].text>>,
                                       body |-> inner.acc])])
        ELSE IF k = "IncludeKeyword"
        THEN Expanded(toks, i + 3, included.acc)
        ELSE Expanded(toks, NextSemi(toks, i) + 1, acc)

\* the statement list of the entry file starts after `target <name>;`
ExpandedProject ==
    Expanded(files["main.ymr"], 4, [routes |-> <<>>, routers |-> <<>>]).acc

\* C5: after the parse of a project with includes, each router (and the project)
\* holds the routes declared before an include, then the top-level routes of the
\* included file, then the routes declared after it, and the same for its child
\* routers, through nested includes: the tree is the one of the text with every
\* include replaced by the included file, so nothing of an included file is
\* attached to another router.
C5_IncludeOrder ==
    pc = "parsed" /\ Includes("main.ymr") => Shape(project) = ExpandedProject

\* a file with a route, a nested include and a route was included in a router
\* between two routes, and the parse has returned
C5_Witness ==
    /\ pc = "parsed"
    /\ files["main.ymr"][4].kind = "RouterKeyword"
    /\ Includes("main.ymr")
    /\ Includes("sub.ymr")
    /\ Len(files["sub.ymr"]) > 4
    /\ Len(files["lib.ymr"]) > 1
    /\ Len(project.routers) = 1
    /\ Len(project.routers[1].routes) = 5
    /\ Len(project.routers[1].routers) = 2

----------------------------------------------------------------------------
(* The scope of use and auth *)

\* the parser is at the head of an iteration of a statement loop
InStatementLoop ==
    /\ pc = "parsing"
    /\ Len(stack) > 0
    /\ \/ Top(stack).fn = "parseParentNode"
       \/ Top(stack).fn = "parseRouter" /\ Top(stack).phase = "body"

\* the token the iteration starts at
StatementPos == AfterIteration(Top(stack), CurToks, CurPos)

AtStatement(kind) == InStatementLoop /\ Kind(CurToks, StatementPos) = kind

ScopeMessages ==
    {"use can only be used in the project node.", "auth can only be used in the project node."}

ScopeErrors(d) == Cardinality({i \in 1..Len(d) : d[i] \in ScopeMessages})

InRouter == EnclosingRouter(stack) # 0

\* Object.keys(projectNode.authBlocks)
AuthBlockIds(proj) == [i \in 1..Len(proj.authBlocks) |-> proj.authBlocks[i].k]

\* the step has left the iteration where it was, with one more error msg and
\* nothing else: no node added, no statement parser entered, no token consumed
OnlyReports(msg) ==
    /\ diagnostics' = ReportError(diagnostics, msg)
    /\ project' = project
    /\ stack' = ReplaceTop(stack, [Top(stack) EXCEPT !.start = StatementPos])
    /\ ctx' = [ctx EXCEPT ![Len(ctx)].pos = StatementPos]

\* the step has entered the parser fn of a statement with options
Entered(fn) == Len(stack') = Len(stack) + 2 /\ stack'[Len(stack) + 1].fn = fn

\* what a step of the parser does about the scope of use and auth
ScopeStep ==
    /\ AtStatement("UseKeyword") /\ InRouter =>
            OnlyReports("use can only be used in the project node.")
    /\ AtStatement("AuthKeyword") /\ InRouter =>
            OnlyReports("auth can only be used in the project node.")
    /\ pc = "parsing" /\ InRouter =>
            /\ project'.middlewares = project.middlewares
            /\ AuthBlockIds(project') = AuthBlockIds(project)
    /\ (AtStatement("UseKeyword") \/ AtStatement("AuthKeyword")) /\ ~InRouter =>
            ScopeErrors(diagnostics') = ScopeErrors(diagnostics)
    /\ AtStatement("UseKeyword") /\ ~InRouter =>
            \/ /\ Len(project'.middlewares) = Len(project.middlewares) + 1
               /\ Len(stack') = Len(stack)
            \/ Entered("parseMiddleware")
    /\ TopIs("parseMiddleware") =>
            /\ project'.middlewares =
                    Append(project.middlewares,
                           MiddlewareNode(Top(stack).name, Top(stack).ret.o))
            /\ stack' = Pop(stack)
    /\ AtStatement("AuthKeyword") /\ ~InRouter =>
            \/ Len(project'.authBlocks) = Len(project.authBlocks) + 1
            \/ Entered("parseAuthBlock")
            \/ Len(diagnostics') > Len(diagnostics)
            \/ Len(diagnostics) = MaxDiagnostics

\* a file of project scope has given the project one middleware for each use and
\* one auth block for each auth
AllTaken ==
    /\ Len(project.middlewares) = CountKind(files["main.ymr"], "UseKeyword")
    /\ Len(project.authBlocks) = CountKind(files["main.ymr"], "AuthKeyword")

\* C9: a use or an auth statement in a router body (in any node that is not the
\* project node, in an included file too) records the scope error and adds
\* nothing: no middleware and no auth block is ever added while a router is being
\* parsed.  At project scope the statement records no scope error and is taken:
\* the middleware of a use statement is added to the project at the end of the
\* statement, and an auth statement is added or rejected for what it says; a file
\* of project scope parsed without an error has given the project one middleware
\* for each use and one auth block for each auth.
C9_UseAuthScope ==
    /\ [](pc = "parsed" /\ diagnostics = << >> /\ ~Includes("main.ymr")
             /\ ~HasKind(files["main.ymr"], "RouterKeyword") => AllTaken)
    /\ [][ScopeStep]_vars

\* a file with a use and an auth statement was included in a router of a project
\* with an auth statement of its own: two scope errors, one auth block, no middleware
C9_Witness ==
    /\ pc = "parsed"
    /\ \E i \in 1..Len(diagnostics) : diagnostics[i] = "use can only be used in the project node."
    /\ \E i \in 1..Len(diagnostics) : diagnostics[i] = "auth can only be used in the project node."
    /\ Len(project.authBlocks) = 1
    /\ project.middlewares = << >>
    /\ Len(project.routers) = 1

----------------------------------------------------------------------------
(* The validation of auth statements *)

MainToks == files["main.ymr"]

\* the entry file is `target T;` and auth statements, each with its option list
OnlyAuthStatements ==
    /\ MainToks[2].text = "T"
    /\ MainToks[4].kind = "AuthKeyword"

\* the auth keyword of the last auth statement of the entry file
LastAuth ==
    CHOOSE i \in 1..Len(MainToks) :
        /\ MainToks[i].kind = "AuthKeyword"
        /\ \A j \in (i + 1)..Len(MainToks) : MainToks[j].kind # "AuthKeyword"

\* where the last auth statement says `key:`
KeyAt(key) ==
    {i \in (LastAuth + 1)..(Len(MainToks) - 2) :
        /\ MainToks[i].kind = "Identifier"
        /\ MainToks[i].text = key
        /\ MainToks[i + 1].kind = "ColonToken"}

Says(key) == KeyAt(key) # {}

\* the kind of the token the last auth statement gives for key
Given(key) == MainToks[(CHOOSE i \in KeyAt(key) : TRUE) + 2].kind

SourceValid == Says("source") /\ Given("source") \in {"HeaderKeyword", "QueryKeyword", "BodyKeyword"}

FieldValid == Says("field") /\ Given("field") = "StringLiteral"

AccessValid ==
    Says("defaultAccess") => Given("defaultAccess") \in {"PublicKeyword", "AuthenticatedKeyword"}

\* C10: an auth statement that lacks source, gives a source other than header,
\* query or body, lacks a string field, or gives a defaultAccess other than public
\* or authenticated records an error and leaves the auth blocks of the project as
\* they were; one that satisfies the four conditions, of a known auth type (here
\* the first auth statement of the project), is added.
C10_AuthValidation ==
    pc = "parsed" /\ OnlyAuthStatements =>
        /\ ~(SourceValid /\ FieldValid /\ AccessValid) =>
                /\ ErrorsRecorded
                /\ Len(project.authBlocks) = CountKind(MainToks, "AuthKeyword") - 1
        /\ /\ SourceValid /\ FieldValid /\ AccessValid
           /\ MainToks[LastAuth + 1].text \in AuthTypes
           /\ CountKind(MainToks, "AuthKeyword") = 1
           => Len(project.authBlocks) = 1

----------------------------------------------------------------------------
(* The auth blocks of a project and the clauses that name them *)

\* the auth blocks whose default access is "authenticated"
DefaultBlocks(proj) ==
    {i \in 1..Len(proj.authBlocks) : ~proj.authBlocks[i].v.isDefaultAccessPublic}

\* C11: after the parse of any project at most one auth block of the project has
\* the default access "authenticated": a second such block is rejected with an
\* error, so that no project is returned with two of them.
C11_SingleDefaultAuth ==
    pc = "parsed" => Cardinality(DefaultBlocks(project)) <= 1

\* C12: every auth block is registered under its alias when its statement has one,
\* and under its auth type when it has none.
C12_AuthIdentity ==
    pc = "parsed" =>
        \A i \in 1..Len(project.authBlocks) :
            LET b == project.authBlocks[i].v IN
            project.authBlocks[i].k = IF b.alias = StrV("") THEN b.type ELSE b.alias.s

\* the alias of the auth statement whose keyword is at i: auth <type> as <alias> ...
StatementAlias(i) ==
    IF MainToks[i + 2].kind = "AsKeyword" THEN MainToks[i + 3].text ELSE ""

\* the identity the auth statement at i declares
StatementIdentity(i) ==
    IF StatementAlias(i) = "" THEN MainToks[i + 1].text ELSE StatementAlias(i)

\* the entry file is `target T;`, `auth Bearer [as <alias>] (source: header, field: "f");`
\* and a second auth statement that is valid and declares the identity of the first
DuplicateAuth ==
    /\ OnlyAuthStatements
    /\ CountKind(MainToks, "AuthKeyword") = 2
    /\ SourceValid /\ FieldValid /\ AccessValid
    /\ MainToks[LastAuth + 1].text \in AuthTypes
    /\ StatementIdentity(4) = StatementIdentity(LastAuth)

\* C13: an auth statement that declares the identity of an auth block already in the
\* project records exactly one error and leaves the map as it was: the earlier
\* block stays registered, with all its fields, and the later one is discarded.
C13_DuplicateAuth ==
    pc = "parsed" /\ DuplicateAuth =>
        /\ Len(diagnostics) = 1
        /\ Len(project.authBlocks) = 1
        /\ project.authBlocks[1].v =
                AuthBlockNode("Bearer", StrV("header"), StrV("f"), StrV(StatementAlias(4)),
                              "public")
        /\ StatementAlias(4) # "" => project.authBlocks[1].k = StatementAlias(4)

\* the second statement declared the alias of the first with another type, another
\* source and another default access
C13_Witness ==
    /\ pc = "parsed"
    /\ DuplicateAuth
    /\ StatementAlias(4) = "b"
    /\ MainToks[LastAuth + 1].text = "API-Key"
    /\ Given("source") = "QueryKeyword"
    /\ Says("defaultAccess") /\ Given("defaultAccess") = "AuthenticatedKeyword"
    /\ diagnostics = <<"auth block already exists.">>

\* the parser is at the head of an iteration of the clause loop of a route or a router
InClauseLoop ==
    /\ pc = "parsing"
    /\ Len(stack) > 0
    /\ \/ Top(stack).fn = "parseRoute"
       \/ Top(stack).fn = "parseRouter" /\ Top(stack).phase = "clauses"

\* the keyword the iteration starts at
ClausePos == AfterIteration(Top(stack), CurToks, CurPos)

\* the token after the keyword
AfterKeyword == Jump(CurToks, ClausePos)

\* authenticate <id>
Named == Kind(CurToks, AfterKeyword) = "Identifier"

\* an authenticate clause of the entry file that has no roles
AtPlainAuthenticate ==
    /\ InClauseLoop
    /\ Len(ctx) = 1
    /\ Kind(CurToks, ClausePos) = "AuthenticateKeyword"
    /\ Kind(CurToks, IF Named THEN Jump(CurToks, AfterKeyword) ELSE AfterKeyword)
            # "WithKeyword"

\* the step has given the route or router the clause that names authBlock, no error
Yields(authBlock) ==
    /\ Len(stack') = Len(stack)
    /\ Top(stack').authenticate = AuthenticateClauseNode(authBlock, Undefined)
    /\ diagnostics' = diagnostics

\* the step has recorded an error and given the route or router no clause
YieldsError ==
    /\ Len(stack') = Len(stack)
    /\ Top(stack').authenticate = Undefined
    /\ \E msg \in {"Expected token", "No default auth block found.", "No auth block found."} :
            diagnostics' = ReportError(diagnostics, msg)

\* what the step of an authenticate clause without roles does
AuthenticateStep ==
    AtPlainAuthenticate =>
        IF ~Named
        THEN IF Len(project.authBlocks) = 1
             THEN Yields(project.authBlocks[1].k)
             ELSE YieldsError
        ELSE IF HasKey(project.authBlocks, Peek(CurToks, AfterKeyword).text)
             THEN Yields(Peek(CurToks, AfterKeyword).text)
             ELSE YieldsError

\* C14: an authenticate clause with no identifier yields a clause that names the
\* single auth block of the project when the project has exactly one at that
\* point, and records an error and yields no clause when it has none or more than
\* one; authenticate <id> yields a clause for a registered id and records an error
\* and yields no clause for an id that is not in the map.
C14_AuthenticateClause == [][AuthenticateStep]_vars

\* the authenticate clauses of the routes and routers of a node, those of nested
\* routers included
RECURSIVE Clauses(_)
Clauses(node) ==
    {node.routes[i].authenticate : i \in 1..Len(node.routes)}
    \cup {node.routers[i].authenticate : i \in 1..Len(node.routers)}
    \cup UNION {Clauses(node.routers[i]) : i \in 1..Len(node.routers)}

\* the clauses that carry an authorization list
WithRoles(proj) ==
    {c \in Clauses(proj) \ {Undefined} : ~IsUndefined(c.authorization)}

\* a step of the parser keeps the flags that are set, and registers a block unflagged
FlagStep ==
    pc = "parsing" =>
        /\ Len(project'.authBlocks) >= Len(project.authBlocks)
        /\ \A i \in 1..Len(project'.authBlocks) :
                IF i <= Len(project.authBlocks)
                THEN project.authBlocks[i].v.isAuthorizationInUse
                        => project'.authBlocks[i].v.isAuthorizationInUse
                ELSE ~project'.authBlocks[i].v.isAuthorizationInUse

\* C15: for every route or router of the project whose authenticate clause carries
\* an authorization list, the auth block the clause names has isAuthorizationInUse
\* true; the flag of a block starts false and is never reset once set.
C15_AuthorizationInUse ==
    /\ [](\A c \in WithRoles(project) :
            /\ HasKey(project.authBlocks, c.authBlock)
            /\ GetKey(project.authBlocks, c.authBlock).isAuthorizationInUse)
    /\ [][FlagStep]_vars

\* a parsed project with a route whose clause has a role, its auth block flagged
C15_Witness ==
    /\ pc = "parsed"
    /\ \E c \in WithRoles(project) :
            /\ c.authorization.a # << >>
            /\ GetKey(project.authBlocks, c.authBlock).isAuthorizationInUse
    /\ Len(project.routes) = 1

\* C16: the parse of an entry file with the terminating semicolons of its
\* statements left out records no diagnostic and returns what the parse of the
\* file with the semicolons returns, also when a route ends with a bare
\* authenticate clause and another statement follows.
C16_OptionalSemicolon ==
    pc = "parsed" /\ last # NoLast =>
        /\ diagnostics = << >>
        /\ last.diagnostics = << >>
        /\ project = last.project
        /\ result = last.result

\* the path nodes of the routes and routers of a node, those of nested routers included
RECURSIVE Paths(_)
Paths(node) ==
    {node.routes[i].path : i \in 1..Len(node.routes)}
    \cup {node.routers[i].path : i \in 1..Len(node.routers)}
    \cup UNION {Paths(node.routers[i]) : i \in 1..Len(node.routers)}

\* C17: in every path node of the project the names of the query parameters are
\* pairwise distinct.
C17_UniqueQueryParameters ==
    \A path \in Paths(project) :
        \A i, j \in 1..Len(path.queryParameters) :
            i # j => path.queryParameters[i].name # path.queryParameters[j].name

----------------------------------------------------------------------------
(* What a target plugin enforces for a route, against the schemas and clauses of the *)
(* route and of the routers around it                                                *)

\* the routers from the project down to the one at the child indices, outermost first
RECURSIVE Ancestors(_, _)
Ancestors(node, routers) ==
    IF routers = << >> THEN << >>
    ELSE <<node.routers[routers[1]]>> \o Ancestors(node.routers[routers[1]], Tail(routers))

\* the route an entry of the output is for, after the routers around it
Lineage(at) ==
    LET around == Ancestors(project, at.routers)
        router == IF around = << >> THEN project ELSE around[Len(around)]
    IN  Append(around, router.routes[at.route])

\* the shallow merge of schemas, a later occurrence of a key winning
RECURSIVE Merge(_)
Merge(schemas) ==
    IF schemas = << >> THEN << >>
    ELSE Spread(Merge(SubSeq(schemas, 1, Len(schemas) - 1)), Schema(schemas[Len(schemas)]))

EffectiveHeader(at) == Merge([i \in 1..Len(Lineage(at)) |-> Lineage(at)[i].header])
EffectiveBody(at) == Merge([i \in 1..Len(Lineage(at)) |-> Lineage(at)[i].body])

\* the keys of a schema, each with its type
Enforced(schema) == {<<schema[i].k, schema[i].v>> : i \in 1..Len(schema)}

\* C18: once a plugin has emitted, what is enforced for a route is, for headers and for
\* bodies, the shallow merge of the schemas of the routers around it from the outermost
\* to the innermost and then its own: a key that a descendant redefines is enforced with
\* the type of the descendant only.
C18_SchemaInheritance ==
    pc = "finished" =>
        \A i \in 1..Len(output) :
            /\ Enforced(output[i].header) = Enforced(EffectiveHeader(output[i].at))
            /\ Enforced(output[i].body) = Enforced(EffectiveBody(output[i].at))

\* the clauses along a lineage, outermost first
OwnClauses(nodes) ==
    SelectSeq([i \in 1..Len(nodes) |-> nodes[i].authenticate], LAMBDA c : c # Undefined)

\* the one clause that applies to a route: its own, else that of the nearest router
\* around it that has one, else the default auth block, else none
EffectiveClause(at) ==
    LET own == OwnClauses(Lineage(at)) IN
    IF own # << >> THEN <<own[Len(own)]>>
    ELSE IF Defaults(project) # << >>
    THEN <<AuthenticateClauseNode(AuthBlockId(Defaults(project)[1]), Undefined)>>
    ELSE << >>

\* C19: once a plugin has emitted, the authentication that runs for a route is that of
\* exactly one clause, the route's own, else the nearest inherited one, else the default
\* auth block, and of none where there is none of these.
C19_EffectiveAuthenticate ==
    pc = "finished" =>
        \A i \in 1..Len(output) : output[i].authenticates = EffectiveClause(output[i].at)

----------------------------------------------------------------------------
(* ParserContext on its own: any caller, any sequence of matchToken and jump *)

ContextTokens == {Id("a"), Semi, Str("s"), OpenParen}

ContextKinds == {"Identifier", "SemicolonToken", "StringLiteral", "ColonToken", "EndOfFileToken"}

\* new ParserContext(diagnostics, tokens)
InitContext ==
    /\ \E toks \in SeqsUpTo(ContextTokens, MaxLen + 1) :
            files = Project(toks \o <<EOF>>, <<EOF>>, <<EOF>>)
    /\ InitParser

\* a call of an operation of the context, the cursor at a token and the sink not full
Callable == pc = "start" /\ CurPos < Len(CurToks) /\ Len(diagnostics) < MaxDiagnostics

CallMatchToken ==
    /\ Callable
    /\ \E kind \in ContextKinds, optional \in BOOLEAN :
        LET m == MatchToken(CurToks, CurCursor, kind, optional) IN
        /\ ctx' = [ctx EXCEPT ![1].pos = m.pos]
        /\ diagnostics' = m.diags
        /\ last' = [op |-> "matchToken", kind |-> kind, optional |-> optional,
                    token |-> m.tok, position |-> CurPos, errors |-> ErrorCount(diagnostics)]
    /\ UNCHANGED <<files, policy, project, stack, pc, result, startErrors, buildDir, emitted,
                   tick>>
    /\ UNCHANGED <<lexerVars, emitterVars>>

CallJump ==
    /\ Callable
    /\ ctx' = [ctx EXCEPT ![1].pos = Jump(CurToks, CurPos)]
    /\ last' = [op |-> "jump"]
    /\ UNCHANGED <<files, policy, diagnostics, project, stack, pc, result, startErrors,
                   buildDir, emitted, tick>>
    /\ UNCHANGED <<lexerVars, emitterVars>>

NextContext == CallMatchToken \/ CallJump

SpecContext == InitContext /\ [][NextContext]_vars

\* the token the last call found at the cursor
Found == Peek(CurToks, last.position)

\* C8: matchToken(kind, optional, hint) returns the current token and advances the
\* cursor by exactly one, the sink as it was, when the current token has the
\* requested kind; when it has not, the cursor is left where it was, the token
\* returned is a synthetic one of the requested kind with empty text and the line
\* and column of the current token, and the sink has gained one error if optional
\* is false and nothing if it is true.
C8_MatchToken ==
    last.op = "matchToken" =>
        IF Found.kind = last.kind
        THEN /\ last.token = Found
             /\ CurPos = last.position + 1
             /\ ErrorCount(diagnostics) = last.errors
        ELSE /\ CurPos = last.position
             /\ last.token.kind = last.kind
             /\ last.token.text = ""
             /\ last.token.line = Found.line
             /\ last.token.column = Found.column
             /\ ErrorCount(diagnostics) = last.errors + (IF last.optional THEN 0 ELSE 1)

\* matchToken has just failed on the second token, not optional
C8_Witness ==
    /\ last.op = "matchToken"
    /\ Found.kind # last.kind
    /\ ~last.optional
    /\ last.position = 1
    /\ ErrorCount(diagnostics) = last.errors + 1

----------------------------------------------------------------------------
(* LexerContext: a cursor lc = [position, sourcePosition] over the characters of txt *)

\* what peek returns past the end of the text
EndOfText == "\\0"

Whitespace == {" ", "\t", "\r", "\n"}

Digits == {"0", "1", "2", "3", "4", "5", "6", "7", "8", "9"}

Letters ==
    {"a", "b", "c", "d", "e", "f", "g", "h", "i", "j", "k", "l", "m", "n", "o", "p", "q",
     "r", "s", "t", "u", "v", "w", "x", "y", "z",
     "A", "B", "C", "D", "E", "F", "G", "H", "I", "J", "K", "L", "M", "N", "O", "P", "Q",
     "R", "S", "T", "U", "V", "W", "X", "Y", "Z"}

CharAt(txt, index) == IF index >= Len(txt) THEN EndOfText ELSE txt[index + 1]

\* the loop of peekWithIndex: the first index from index on that holds no whitespace
RECURSIVE SkipWhitespace(_, _)
SkipWhitespace(txt, index) ==
    IF CharAt(txt, index) \in Whitespace THEN SkipWhitespace(txt, index + 1) ELSE index

PeekWithIndex(txt, lc, offset, skipWhitespace) ==
    LET index == lc.position + offset
        found == IF skipWhitespace /\ index < Len(txt) THEN SkipWhitespace(txt, index)
                 ELSE index
    IN  [char |-> CharAt(txt, found), index |-> found]

PeekChar(txt, lc, offset, skipWhitespace) == PeekWithIndex(txt, lc, offset, skipWhitespace).char

CurrentCharacter(txt, lc) == PeekChar(txt, lc, 0, FALSE)

\* a jump that adds the offset to the column and not to the position
JumpColumnOnly(txt, lc, offset, skipWhitespace) ==
    [position |-> lc.position, sourcePosition |-> lc.sourcePosition + offset]

\* jump(offset, skipWhitespace); nextToken(skipWhitespace) is jump(1, skipWhitespace)
JumpChars(txt, lc, offset, skipWhitespace) ==
    LET to == IF skipWhitespace THEN SkipWhitespace(txt, lc.position + offset)
              ELSE lc.position + offset
    IN  [position |-> to, sourcePosition |-> lc.sourcePosition + (to - lc.position)]

\* read(skipWhitespace): the current character, and the cursor after it
Read(txt, lc, skipWhitespace) ==
    [char |-> CurrentCharacter(txt, lc), lc |-> JumpChars(txt, lc, 1, skipWhitespace)]

----------------------------------------------------------------------------
(* The rules: isMatch at the cursor, and transform, which gives the token and the
   cursor after it.  A token is [kind, text, column |-> [start, length]]; the lexer
   adds the line. *)

SourceSpan(start, length) == [start |-> start, length |-> length]

Token(kind, txt, start, length) ==
    [kind |-> kind, text |-> txt, column |-> SourceSpan(start, length)]

\* the loops `while (this.isDigit(context.currentCharacter)) number += context.read()`
RECURSIVE ReadDigits(_, _)
ReadDigits(txt, r) ==
    IF CurrentCharacter(txt, r.lc) \in Digits
    THEN ReadDigits(txt, [number |-> Append(r.number, CurrentCharacter(txt, r.lc)),
                          lc |-> JumpChars(txt, r.lc, 1, FALSE)])
    ELSE r

\* `number += context.read()` when the current character is one of chars
ReadIf(txt, r, chars) ==
    IF CurrentCharacter(txt, r.lc) \in chars
    THEN [number |-> Append(r.number, CurrentCharacter(txt, r.lc)),
          lc |-> JumpChars(txt, r.lc, 1, FALSE)]
    ELSE r

CheckForDot(txt, lc) ==
    LET p == PeekWithIndex(txt, lc, 1, TRUE) IN
    p.char = "." /\ PeekChar(txt, lc, p.index + 1, FALSE) \in Digits

NumberIsMatch(txt, lc) ==
    LET c == CurrentCharacter(txt, lc) IN
    \/ c \in Digits
    \/ c \in {"-", "+", "."} /\ PeekChar(txt, lc, 1, TRUE) \in Digits
    \/ c \in {"-", "+"} /\ CheckForDot(txt, lc)

ReadNumber(txt, lc) ==
    LET c == CurrentCharacter(txt, lc)
        sign == IF c = "-" THEN [number |-> <<"-">>, lc |-> JumpChars(txt, lc, 1, TRUE)]
                ELSE IF c = "+" THEN [number |-> << >>, lc |-> JumpChars(txt, lc, 1, TRUE)]
                ELSE [number |-> << >>, lc |-> lc]
        fraction == ReadDigits(txt, ReadIf(txt, ReadDigits(txt, sign), {"."}))
        exponent == ReadDigits(txt, ReadIf(txt, ReadIf(txt, fraction, {"e", "E"}), {"-", "+"}))
    IN  IF CurrentCharacter(txt, fraction.lc) \notin {"e", "E"} THEN fraction ELSE exponent

NumberTransform(txt, lc) ==
    LET r == ReadNumber(txt, lc) IN
    [tok |-> Token("NumericLiteral", r.number, lc.sourcePosition, Len(r.number)),
     lc |-> r.lc, threw |-> FALSE]

StringIsMatch(txt, lc) == CurrentCharacter(txt, lc) \in {"\"", "'"}

\* the loop of readString and the read after it
RECURSIVE ReadString(_, _, _, _, _)
ReadString(txt, lc, quote, wasEscaped, string) ==
    LET current == CurrentCharacter(txt, lc)
        after == JumpChars(txt, lc, 1, FALSE)
    IN  IF current = quote /\ ~wasEscaped
        THEN [string |-> string, errored |-> FALSE, lc |-> after]
        ELSE IF current = EndOfText
        THEN [string |-> string, errored |-> TRUE, lc |-> after]
        ELSE IF current = "\\" /\ ~wasEscaped
        THEN ReadString(txt, after, quote, TRUE, string)
        ELSE ReadString(txt, after, quote, FALSE, Append(string, current))

StringTransform(txt, lc) ==
    LET quote == CurrentCharacter(txt, lc)
        r == ReadString(txt, JumpChars(txt, lc, 1, FALSE), quote, FALSE, << >>)
    IN  [tok |-> Token("StringLiteral", <<quote>> \o r.string \o <<quote>>,
                       lc.sourcePosition, Len(r.string) + 2),
         lc |-> r.lc, threw |-> r.errored]

WordChars == Letters \cup Digits \cup {"_"}

PatternIsMatch(txt, lc, pattern) ==
    /\ \A i \in 1..Len(pattern) : PeekChar(txt, lc, i - 1, FALSE) = pattern[i]
    /\ PeekChar(txt, lc, Len(pattern), FALSE) \notin WordChars

PatternTransform(txt, lc, pattern, kind) ==
    [tok |-> Token(kind, pattern, lc.sourcePosition, Len(pattern)),
     lc |-> JumpChars(txt, lc, Len(pattern), FALSE), threw |-> FALSE]

True == <<"t", "r", "u", "e">>

False == <<"f", "a", "l", "s", "e">>

BooleanIsMatch(txt, lc) == PatternIsMatch(txt, lc, True) \/ PatternIsMatch(txt, lc, False)

BooleanTransform(txt, lc) ==
    PatternTransform(txt, lc, IF PatternIsMatch(txt, lc, True) THEN True ELSE False,
                     "BooleanLiteral")

\* the PatternSyntaxRules of the RuleSet, in its order
Patterns ==
    <<
      [pattern |-> <<"t", "a", "r", "g", "e", "t">>, kind |-> "TargetKeyword"],
      [pattern |-> <<"u", "s", "e">>, kind |-> "UseKeyword"],
      [pattern |-> <<"r", "o", "u", "t", "e", "r">>, kind |-> "RouterKeyword"],
      [pattern |-> <<"i", "n", "c", "l", "u", "d", "e">>, kind |-> "IncludeKeyword"],
      [pattern |-> <<"G", "E", "T">>, kind |-> "GetMethodKeyword"],
      [pattern |-> <<"P", "O", "S", "T">>, kind |-> "PostMethodKeyword"],
      [pattern |-> <<"P", "U", "T">>, kind |-> "PutMethodKeyword"],
      [pattern |-> <<"D", "E", "L", "E", "T", "E">>, kind |-> "DeleteMethodKeyword"],
      [pattern |-> <<"P", "A", "T", "C", "H">>, kind |-> "PatchMethodKeyword"],
      [pattern |-> <<"H", "E", "A", "D">>, kind |-> "HeadMethodKeyword"],
      [pattern |-> <<"O", "P", "T", "I", "O", "N", "S">>, kind |-> "OptionsMethodKeyword"],
      [pattern |-> <<"a", "s">>, kind |-> "AsKeyword"],
      [pattern |-> <<"a", "n", "y">>, kind |-> "AnyTypeKeyword"],
      [pattern |-> <<"s", "t", "r", "i", "n", "g">>, kind |-> "StringTypeKeyword"],
      [pattern |-> <<"f", "l", "o", "a", "t">>, kind |-> "FloatTypeKeyword"],
      [pattern |-> <<"i", "n", "t">>, kind |-> "IntegerTypeKeyword"],
      [pattern |-> <<"b", "o", "o", "l", "e", "a", "n">>, kind |-> "BooleanTypeKeyword"],
      [pattern |-> <<"d", "a", "t", "e", "t", "i", "m", "e">>, kind |-> "DateTimeTypeKeyword"],
      [pattern |-> <<"d", "a", "t", "e">>, kind |-> "DateTypeKeyword"],
      [pattern |-> <<"t", "i", "m", "e">>, kind |-> "TimeTypeKeyword"]
    >>

\* the CharSyntaxRules of the RuleSet, in its order
Chars ==
    <<
      [char |-> "(", kind |-> "OpenParenToken"],
      [char |-> ")", kind |-> "CloseParenToken"],
      [char |-> "{", kind |-> "OpenBraceToken"],
      [char |-> "}", kind |-> "CloseBraceToken"],
      [char |-> "[", kind |-> "OpenBracketToken"],
      [char |-> "]", kind |-> "CloseBracketToken"],
      [char |-> ".", kind |-> "DotToken"],
      [char |-> ",", kind |-> "CommaToken"],
      [char |-> ":", kind |-> "ColonToken"],
      [char |-> ";", kind |-> "SemicolonToken"],
      [char |-> "?", kind |-> "QuestionToken"],
      [char |-> "=", kind |-> "EqualsToken"],
      [char |-> "!", kind |-> "ExclamationToken"],
      [char |-> "<", kind |-> "LessThanToken"],
      [char |-> ">", kind |-> "GreaterThanToken"],
      [char |-> "+", kind |-> "PlusToken"],
      [char |-> "-", kind |-> "MinusToken"],
      [char |-> "*", kind |-> "AsteriskToken"],
      [char |-> "/", kind |-> "SlashToken"],
      [char |-> "%", kind |-> "PercentToken"],
      [char |-> "&", kind |-> "AmpersandToken"],
      [char |-> "|", kind |-> "BarToken"],
      [char |-> "^", kind |-> "CaretToken"],
      [char |-> "~", kind |-> "TildeToken"],
      [char |-> "@", kind |-> "AtToken"],
      [char |-> "#", kind |-> "HashToken"]
    >>

CharTransform(txt, lc, kind) ==
    [tok |-> Token(kind, <<CurrentCharacter(txt, lc)>>, lc.sourcePosition, 1),
     lc |-> JumpChars(txt, lc, 1, FALSE), threw |-> FALSE]

IdentifierIsMatch(txt, lc) == CurrentCharacter(txt, lc) \in Letters \cup {"_"}

\* the loop of readIdentifier
RECURSIVE ReadIdentifier(_, _, _)
ReadIdentifier(txt, lc, identifier) ==
    IF CurrentCharacter(txt, lc) \in WordChars
    THEN ReadIdentifier(txt, JumpChars(txt, lc, 1, FALSE),
                        Append(identifier, CurrentCharacter(txt, lc)))
    ELSE [identifier |-> identifier, lc |-> lc]

IdentifierTransform(txt, lc) ==
    LET r == ReadIdentifier(txt, lc, << >>) IN
    [tok |-> Token("Identifier", r.identifier, lc.sourcePosition, Len(r.identifier)),
     lc |-> r.lc, threw |-> FALSE]

\* `for (const rule of RuleSet)`: some rule matches at the cursor
RuleMatches(txt, lc) ==
    \/ NumberIsMatch(txt, lc)
    \/ StringIsMatch(txt, lc)
    \/ BooleanIsMatch(txt, lc)
    \/ \E i \in 1..Len(Patterns) : PatternIsMatch(txt, lc, Patterns[i].pattern)
    \/ \E i \in 1..Len(Chars) : CurrentCharacter(txt, lc) = Chars[i].char
    \/ IdentifierIsMatch(txt, lc)

\* the transform of the first rule of the RuleSet that matches
RuleTransform(txt, lc) ==
    LET first == CHOOSE i \in 1..Len(Patterns) :
                    /\ PatternIsMatch(txt, lc, Patterns[i].pattern)
                    /\ \A j \in 1..(i - 1) : ~PatternIsMatch(txt, lc, Patterns[j].pattern)
        char == CHOOSE i \in 1..Len(Chars) : CurrentCharacter(txt, lc) = Chars[i].char
    IN  IF NumberIsMatch(txt, lc) THEN NumberTransform(txt, lc)
        ELSE IF StringIsMatch(txt, lc) THEN StringTransform(txt, lc)
        ELSE IF BooleanIsMatch(txt, lc) THEN BooleanTransform(txt, lc)
        ELSE IF \E i \in 1..Len(Patterns) : PatternIsMatch(txt, lc, Patterns[i].pattern)
        THEN PatternTransform(txt, lc, Patterns[first].pattern, Patterns[first].kind)
        ELSE IF \E i \in 1..Len(Chars) : CurrentCharacter(txt, lc) = Chars[i].char
        THEN CharTransform(txt, lc, Chars[char].kind)
        ELSE IdentifierTransform(txt, lc)

----------------------------------------------------------------------------
(* Lexer.tokenize: one action for each way an iteration of its loop goes *)

LexerCursor == [position |-> position, sourcePosition |-> sourcePosition]

Scanning(chars) == lexpc = "scanning" /\ CurrentCharacter(text, LexerCursor) \in chars

\* the cursor moves to lc, the tokens become toks
LexerStep(lc, toks, next) ==
    /\ position' = lc.position
    /\ sourcePosition' = lc.sourcePosition
    /\ tokens' = toks
    /\ lexpc' = next
    /\ UNCHANGED text
    /\ UNCHANGED parserVars

\* a token of the lexer: the line added, and the offset in the text where the rule
\* started (what the spans of the source are measured against)
Lexed(tok) == [kind |-> tok.kind, text |-> tok.text, column |-> tok.column, line |-> line,
               offset |-> position]

\* case "\r": case "\t"
SkipControl ==
    /\ Scanning({"\r", "\t"})
    /\ LexerStep(JumpChars(text, LexerCursor, 1, FALSE), tokens, "scanning")
    /\ UNCHANGED line

\* case "\n": newLine(), nextToken(), _line++
NewLine ==
    /\ Scanning({"\n"})
    /\ LexerStep(JumpChars(text, [LexerCursor EXCEPT !.sourcePosition = 0], 1, FALSE),
                 tokens, "scanning")
    /\ line' = line + 1

\* a rule matches: its token is pushed, or its transform throws
Transform ==
    /\ lexpc = "scanning"
    /\ CurrentCharacter(text, LexerCursor) \notin {EndOfText, "\r", "\t", "\n"}
    /\ RuleMatches(text, LexerCursor)
    /\ LET r == RuleTransform(text, LexerCursor) IN
        IF r.threw
        THEN LexerStep(r.lc, tokens, "threw")
        ELSE LexerStep(r.lc, Append(tokens, Lexed(r.tok)), "scanning")
    /\ UNCHANGED line

\* no rule matches a blank
SkipSpace ==
    /\ Scanning({" "})
    /\ ~RuleMatches(text, LexerCursor)
    /\ LexerStep(JumpChars(text, LexerCursor, 1, FALSE), tokens, "scanning")
    /\ UNCHANGED line

\* no rule matches: a bad token of one character
BadToken ==
    /\ lexpc = "scanning"
    /\ CurrentCharacter(text, LexerCursor) \notin {EndOfText, "\r", "\t", "\n", " "}
    /\ ~RuleMatches(text, LexerCursor)
    /\ LexerStep(JumpChars(text, LexerCursor, 1, FALSE),
                 Append(tokens, Lexed(Token("BadToken", <<CurrentCharacter(text, LexerCursor)>>,
                                            sourcePosition, 1))),
                 "scanning")
    /\ UNCHANGED line

\* the end of the loop: the end of file token
EndOfFile ==
    /\ Scanning({EndOfText})
    /\ LexerStep(LexerCursor,
                 Append(tokens, Lexed(Token("EndOfFileToken", <<EndOfText>>, sourcePosition, 1))),
                 "done")
    /\ UNCHANGED line

----------------------------------------------------------------------------
(* The lexer on its own: new Lexer(file, text).tokenize() *)

LexerAlphabet == {"a", "5", "+", "-", " ", "\n", "\""}

\* what the texts start with: nothing, a keyword, a boolean, control characters, a
\* character of no rule, an exponent, a sign before a dot, an open string with an
\* escape, a second line
LexerPrefixes ==
    {<< >>, <<"a", "s">>, <<"t", "r", "u", "e">>, <<"\t">>, <<"\r", "$">>, <<"1", "e">>,
     <<"-", ".">>, <<"\"", "\\">>, <<"\n", ";">>}

InitLexer ==
    /\ \E prefix \in LexerPrefixes, rest \in SeqsUpTo(LexerAlphabet, MaxTextLen) :
            text = prefix \o rest
    /\ position = 0
    /\ sourcePosition = 0
    /\ line = 1
    /\ tokens = << >>
    /\ lexpc = "scanning"
    /\ files = Project(<<EOF>>, <<EOF>>, <<EOF>>)
    /\ policy = "CancelParsingOnFirstError"
    /\ ctx = <<[file |-> "main.ymr", pos |-> 0, hasProject |-> FALSE]>>
    /\ diagnostics = << >>
    /\ project = ProjectNode("")
    /\ stack = << >>
    /\ pc = "lexing"
    /\ result = "none"
    /\ startErrors = 0
    /\ buildDir = FALSE
    /\ emitted = FALSE
    /\ last = NoLast
    /\ tick = 0
    /\ EmitterIdle

NextLexer ==
    \/ SkipControl
    \/ NewLine
    \/ Transform
    \/ SkipSpace
    \/ BadToken
    \/ EndOfFile

SpecLexer == InitLexer /\ [][NextLexer]_vars

IsEndOfFile(tok) == tok.kind = "EndOfFileToken"

\* C6: when every string literal of the text is closed (no transform throws),
\* Lexer.tokenize terminates: every iteration of its loop advances the cursor by at
\* least one character, and the cursor never passes the end of the text.  The
\* sequence returned holds exactly one end of file token, the last one, and the
\* tokens are in the order of their start offsets in the text.
C6_Tokenize ==
    /\ [](lexpc = "scanning" =>
            /\ position <= Len(text)
            /\ \A i \in 1..Len(tokens) : ~IsEndOfFile(tokens[i]))
    /\ [](lexpc = "done" =>
            /\ tokens # << >>
            /\ IsEndOfFile(tokens[Len(tokens)])
            /\ \A i \in 1..(Len(tokens) - 1) : ~IsEndOfFile(tokens[i]))
    /\ [](\A i, j \in 1..Len(tokens) : i < j => tokens[i].offset < tokens[j].offset)
    /\ [][lexpc = "scanning" /\ lexpc' = "scanning" => position' > position]_vars
    /\ [][lexpc = "scanning" => lexpc' \in {"scanning", "done", "threw"}]_vars

\* a keyword, a closed string literal and the end of file have been returned
C6_Witness ==
    /\ lexpc = "done"
    /\ Len(tokens) = 3
    /\ tokens[1].kind = "AsKeyword"
    /\ tokens[2].kind = "StringLiteral"
    /\ position = Len(text)

----------------------------------------------------------------------------
(* The text and the span of a token *)

\* the offset in txt at which line l starts
LineOffset(txt, l) ==
    CHOOSE o \in 0..Len(txt) :
        /\ Cardinality({i \in 1..o : txt[i] = "\n"}) = l - 1
        /\ o = 0 \/ txt[o] = "\n"

\* the characters of txt from offset start on, length of them (those there are)
Slice(txt, start, length) == SubSeq(txt, start + 1, Min(start + length, Len(txt)))

\* the text of the token is what its column spans, the column taken as an offset
\* in the text or as an offset in the line of the token
SpanIsText(tok) ==
    \/ tok.text = Slice(text, tok.column.start, tok.column.length)
    \/ tok.text = Slice(text, LineOffset(text, tok.line) + tok.column.start, tok.column.length)

\* C7: the text of every token of the lexer (but the end of file token, which has
\* no text in the source, and string literals with escapes, whose text is decoded)
\* is the substring of the source that starts at the token's column.start and has
\* the length column.length: numeric literals with a sign and tokens on later
\* lines too.
C7_TokenText ==
    \A i \in 1..Len(tokens) :
        /\ ~IsEndOfFile(tokens[i])
        /\ ~(tokens[i].kind = "StringLiteral" /\ \E k \in 1..Len(text) : text[k] = "\\")
        => SpanIsText(tokens[i])

----------------------------------------------------------------------------
(* Literal values in option lists *)

\* C26: a well-formed option list of literals is parsed without a diagnostic, and the
\* middleware holds each key with the value of its literal, the values false, 0 and
\* the empty string too, in a nested object and in an array as well.
C26_LiteralsStored ==
    \A list \in OptionLists :
        MainToks = Place(OptionFile(list)) =>
            /\ diagnostics = << >>
            /\ result = "project" =>
                    project.middlewares = <<MiddlewareNode("cors", list.options)>>

----------------------------------------------------------------------------
(* Authenticate clauses in included files *)

\* C28: the parser of an included file never fails on an authenticate clause for want
\* of a current project: the parse does not end with a TypeError at the keyword
\* `authenticate` of an included file.
C28_IncludedAuthenticate ==
    ~(/\ pc = "crashed"
      /\ result = "TypeError"
      /\ Len(ctx) > 1
      /\ Kind(CurToks, CurPos) = "AuthenticateKeyword")

----------------------------------------------------------------------------
(* The authorization flag of an auth block against the clauses of the AST *)

\* C30: in an AST the parser has returned, an auth block has isAuthorizationInUse true
\* only if a route or a router carries an authenticate clause that names the block and
\* has an authorization list; a clause rejected after its `with` leaves no flag.
C30_FlagOnlyWithClause ==
    pc = "parsed" /\ result = "project" =>
        \A i \in 1..Len(project.authBlocks) :
            project.authBlocks[i].v.isAuthorizationInUse
                => \E c \in WithRoles(project) : c.authBlock = project.authBlocks[i].k

----------------------------------------------------------------------------
(* The clauses of a route of the Java plugin against the routers around the route *)

\* C27: the authentication checks the Java plugin emits for a route are those of
\* clauses of the route itself, of the routers around it, or of the default auth
\* block: no clause of a router beside the route or beside one of its routers.
C27_NoForeignClause ==
    pc = "finished" /\ project.target = "Java_SpringBoot" =>
        \A i \in 1..Len(output) :
            \A n \in 1..Len(output[i].authenticates) :
                \/ \E m \in 1..Len(OwnClauses(Lineage(output[i].at))) :
                        OwnClauses(Lineage(output[i].at))[m] = output[i].authenticates[n]
                \/ /\ DefaultClause(project) # Undefined
                   /\ output[i].authenticates[n] = DefaultClause(project)

----------------------------------------------------------------------------
(* Auth blocks the Java plugin cannot lower *)

\* C29: when the Java plugin has emitted, every route whose clause names an auth block
\* has the check of that block, and the check reads the credential of the block: for
\* a block that cannot be lowered the emission does not end.
C29_NoUnauthenticatedRoute ==
    pc = "finished" /\ project.target = "Java_SpringBoot" =>
        \A i \in 1..Len(output) :
            \A n \in 1..Len(EffectiveClause(output[i].at)) :
                LET clause == EffectiveClause(output[i].at)[n] IN
                HasKey(project.authBlocks, clause.authBlock) =>
                    /\ \E m \in 1..Len(output[i].authenticates) :
                            output[i].authenticates[m] = clause
                    /\ Credentials(GetKey(project.authBlocks, clause.authBlock)) # << >>

----------------------------------------------------------------------------
(* The order of the checks in a route handler of the Express plugin *)

Validations == {"header", "query", "body"}

\* the places of a check in the handler of an entry
Places(entry, check) == {n \in 1..Len(entry.checks) : entry.checks[n] = check}

\* every check named first comes before every check named second
Before(entry, first, second) ==
    \A n \in Places(entry, first), m \in Places(entry, second) : n < m

\* C23: in every route handler the Express plugin emits, the header validation comes
\* before the query validation, that before the body validation, every validation
\* before the authentication, and the authentication before the authorization.
C23_ValidationBeforeAuthentication ==
    pc = "finished" /\ project.target = "JavaScript_ExpressJS" =>
        \A i \in 1..Len(output) :
            /\ Before(output[i], "header", "query")
            /\ Before(output[i], "query", "body")
            /\ Before(output[i], "header", "body")
            /\ \A v \in Validations : Before(output[i], v, "authenticate")
            /\ Before(output[i], "authenticate", "authorize")

----------------------------------------------------------------------------
(* generateMiddlewareOptionsHash.  A text is the sequence of its characters; the keys *)
(* and the strings of the mappings hashed are one character long; the values are     *)
(* strings, numbers below ten, objects and arrays.                                    *)

\* the code unit of a character of the texts hashed
CharCode(c) ==
    CASE c = "\n" -> 10 [] c = " " -> 32 [] c = "\"" -> 34 [] c = "," -> 44
      [] c = "0" -> 48 [] c = "1" -> 49 [] c = "2" -> 50 [] c = "3" -> 51 [] c = "4" -> 52
      [] c = "5" -> 53 [] c = "6" -> 54 [] c = "7" -> 55 [] c = "8" -> 56 [] c = "9" -> 57
      [] c = ":" -> 58 [] c = "a" -> 97 [] c = "b" -> 98 [] c = "c" -> 99 [] c = "d" -> 100
      [] c = "e" -> 101 [] c = "x" -> 120 [] c = "{" -> 123 [] c = "}" -> 125

\* String(n) for a number below ten
Digit(n) ==
    CASE n = 0 -> "0" [] n = 1 -> "1" [] n = 2 -> "2" [] n = 3 -> "3" [] n = 4 -> "4"
      [] n = 5 -> "5" [] n = 6 -> "6" [] n = 7 -> "7" [] n = 8 -> "8" [] n = 9 -> "9"

\* the entries in insertion order
InsertionOrder(obj) == obj

\* Object.keys(obj).sort(): the entries in the order of the code units of their keys
RECURSIVE SortedKeys(_)
SortedKeys(obj) ==
    IF obj = << >> THEN << >>
    ELSE LET i == CHOOSE i \in 1..Len(obj) :
                    \A j \in 1..Len(obj) : CharCode(obj[i].k) <= CharCode(obj[j].k)
         IN  <<obj[i]>> \o SortedKeys(SubSeq(obj, 1, i - 1) \o SubSeq(obj, i + 1, Len(obj)))

\* a value for which `typeof value === "object"` holds, as the object whose keys are
\* read: the keys of an array are its indices
KeysOf(value) ==
    IF value.t = "array"
    THEN [i \in 1..Len(value.a) |-> [k |-> Digit(i - 1), v |-> value.a[i]]]
    ELSE value.o

\* sortObjectKeysRecursively
RECURSIVE SortObjectKeysRecursively(_)
SortObjectKeysRecursively(obj) ==
    LET keys == SortedKeys(obj) IN
    [i \in 1..Len(keys) |->
        [k |-> keys[i].k,
         v |-> IF keys[i].v.t \in {"object", "array"}
               THEN ObjV(SortObjectKeysRecursively(KeysOf(keys[i].v)))
               ELSE keys[i].v]]

\* the texts joined with a comma
RECURSIVE JoinComma(_)
JoinComma(texts) ==
    IF texts = << >> THEN << >>
    ELSE IF Len(texts) = 1 THEN texts[1]
    ELSE texts[1] \o <<",">> \o JoinComma(Tail(texts))

\* JSON.stringify of an object of strings, numbers and objects
RECURSIVE Stringify(_)
Stringify(obj) ==
    <<"{">>
    \o JoinComma([i \in 1..Len(obj) |->
            <<"\"", obj[i].k, "\"", ":">>
            \o (CASE obj[i].v.t = "string" -> <<"\"", obj[i].v.s, "\"">>
                  [] obj[i].v.t = "number" -> <<Digit(obj[i].v.n)>>
                  [] OTHER -> Stringify(obj[i].v.o))])
    \o <<"}">>

\* .replace(/ /g, "").replace(/\n/g, "")
Trimmed(chars) == SelectSeq(chars, LAMBDA c : c \notin {" ", "\n"})

Base64Alphabet ==
    <<"A", "B", "C", "D", "E", "F", "G", "H", "I", "J", "K", "L", "M", "N", "O", "P",
      "Q", "R", "S", "T", "U", "V", "W", "X", "Y", "Z", "a", "b", "c", "d", "e", "f",
      "g", "h", "i", "j", "k", "l", "m", "n", "o", "p", "q", "r", "s", "t", "u", "v",
      "w", "x", "y", "z", "0", "1", "2", "3", "4", "5", "6", "7", "8", "9", "+", "/">>

Sextet(n) == Base64Alphabet[n + 1]

\* base64Encode of a sequence of bytes
RECURSIVE Base64Bytes(_)
Base64Bytes(bytes) ==
    IF bytes = << >> THEN << >>
    ELSE IF Len(bytes) = 1
    THEN <<Sextet(bytes[1] \div 4), Sextet((bytes[1] % 4) * 16), "=", "=">>
    ELSE IF Len(bytes) = 2
    THEN <<Sextet(bytes[1] \div 4),
           Sextet((bytes[1] % 4) * 16 + bytes[2] \div 16),
           Sextet((bytes[2] % 16) * 4), "=">>
    ELSE <<Sextet(bytes[1] \div 4),
           Sextet((bytes[1] % 4) * 16 + bytes[2] \div 16),
           Sextet((bytes[2] % 16) * 4 + bytes[3] \div 64),
           Sextet(bytes[3] % 64)>>
         \o Base64Bytes(SubSeq(bytes, 4, Len(bytes)))

base64Encode(chars) == Base64Bytes([i \in 1..Len(chars) |-> CharCode(chars[i])])

generateMiddlewareOptionsHash(opts) ==
    base64Encode(Trimmed(Stringify(SortObjectKeysRecursively(opts))))

\* the values of the mappings hashed: a number, a string, a blank, an object of two
\* keys in either order, an array that holds such an object
HashObjects ==
    {<<[k |-> "a", v |-> StrV(" ")], [k |-> "b", v |-> NumV(1)]>>,
     <<[k |-> "b", v |-> NumV(1)], [k |-> "a", v |-> StrV(" ")]>>}

HashValues ==
    {NumV(1), StrV("x")}
    \cup {ObjV(o) : o \in HashObjects}
    \cup {ArrV(<<NumV(0), ObjV(o)>>) : o \in HashObjects}

HashKeys == <<"b", "a", "c", "e", "d">>

\* the mappings of up to MaxKeys keys, in every insertion order
HashInputs ==
    UNION {{[i \in 1..n |-> [k |-> HashKeys[order[i]], v |-> values[i]]] :
                order \in {f \in [1..n -> 1..n] : \A i, j \in 1..n : i # j => f[i] # f[j]},
                values \in [1..n -> HashValues]} :
           n \in 1..MaxKeys}

\* the mappings that differ from obj by two neighbouring keys changing places, at the
\* top level or in an object at any depth
RECURSIVE Reordered(_)
RECURSIVE ReorderedValue(_)
Reordered(obj) ==
    {[i \in 1..Len(obj) |-> IF i = p THEN obj[p + 1] ELSE IF i = p + 1 THEN obj[p] ELSE obj[i]] :
        p \in 1..(Len(obj) - 1)}
    \cup UNION {{[obj EXCEPT ![p].v = w] : w \in ReorderedValue(obj[p].v)} : p \in 1..Len(obj)}

ReorderedValue(value) ==
    IF value.t = "object" THEN {ObjV(o) : o \in Reordered(value.o)}
    ELSE IF value.t = "array"
    THEN UNION {{ArrV([value.a EXCEPT ![p] = w]) : w \in ReorderedValue(value.a[p])} :
                    p \in 1..Len(value.a)}
    ELSE {}

InitHash ==
    /\ middlewareOptions \in HashInputs
    /\ hash = NoHash
    /\ output = << >>
    /\ JavaIdle
    /\ LexerIdle
    /\ files = Project(<<EOF>>, <<EOF>>, <<EOF>>)
    /\ policy = "CancelParsingOnFirstError"
    /\ ctx = <<[file |-> "main.ymr", pos |-> 0, hasProject |-> FALSE]>>
    /\ diagnostics = << >>
    /\ project = ProjectNode("")
    /\ stack = << >>
    /\ pc = "hashing"
    /\ result = "none"
    /\ startErrors = 0
    /\ buildDir = FALSE
    /\ emitted = FALSE
    /\ last = NoLast
    /\ tick = 0

\* compileBodyOptionsAsDto: const hash = this.generateMiddlewareOptionsHash(bodyOptions),
\* the first time
GenerateHash ==
    /\ pc = "hashing"
    /\ hash = NoHash
    /\ hash' = [options |-> middlewareOptions,
                value |-> generateMiddlewareOptionsHash(middlewareOptions)]
    /\ UNCHANGED <<files, policy, ctx, diagnostics, project, stack, pc, result, startErrors,
                   buildDir, emitted, last, tick, lexerVars, output, middlewareOptions, javaVars>>

\* a later schema that holds the same keys and values, written in another order
Reorder ==
    /\ pc = "hashing"
    /\ hash # NoHash
    /\ middlewareOptions' \in Reordered(middlewareOptions)
    /\ UNCHANGED <<files, policy, ctx, diagnostics, project, stack, pc, result, startErrors,
                   buildDir, emitted, last, tick, lexerVars, output, hash, javaVars>>

NextHash == GenerateHash \/ Reorder

SpecHash == InitHash /\ [][NextHash]_vars

\* C20: a mapping that holds the keys and values of the mapping hashed first, in
\* whatever order at the top level and in the objects at every depth, has the hash
\* that was returned first.
C20_HashStable ==
    hash # NoHash => generateMiddlewareOptionsHash(middlewareOptions) = hash.value

\* an object among the values of obj, at the top level or in an array, with its key
RECURSIVE Nested(_)
Nested(obj) ==
    {<<obj[i].k, obj[i].v>> : i \in {j \in 1..Len(obj) : obj[j].v.t = "object"}}
    \cup UNION {{<<obj[i].k, obj[i].v.a[p]>> :
                    p \in {q \in 1..Len(obj[i].v.a) : obj[i].v.a[q].t = "object"}} :
                i \in {j \in 1..Len(obj) : obj[j].v.t = "array"}}

\* the mapping hashed first had its keys in another order than the mapping has now,
\* at the top level and in a nested object
C20_Witness ==
    /\ hash # NoHash
    /\ Len(middlewareOptions) > 1
    /\ \E i \in 1..Len(middlewareOptions) : middlewareOptions[i].k # hash.options[i].k
    /\ \E n \in Nested(middlewareOptions), m \in Nested(hash.options) :
            n[1] = m[1] /\ n[2] # m[2]

----------------------------------------------------------------------------
(* Two compiles of one project: the express.js target and the vanilla frontend *)

\* the parser and the lexer at rest, while an emitter is given a project as it is
FrontEndIdle ==
    /\ LexerIdle
    /\ files = Project(<<EOF>>, <<EOF>>, <<EOF>>)
    /\ policy = "CancelParsingOnFirstError"
    /\ ctx = <<[file |-> "main.ymr", pos |-> 0, hasProject |-> FALSE]>>
    /\ diagnostics = << >>
    /\ stack = << >>
    /\ result = "none"
    /\ startErrors = 0
    /\ buildDir = FALSE
    /\ emitted = FALSE
    /\ tick = 0

\* what Math.random can make randomString and randomElementId return
RandomStrings == {"r0", "r1"}

\* new AuthBlockNode(type, source, field, alias, defaultAccess, options)
AuthBlockNodeWith(type, source, field, alias, defaultAccess, options) ==
    [type |-> type, source |-> source, field |-> field, alias |-> alias,
     isDefaultAccessPublic |-> defaultAccess # "authenticated",
     isAuthorizationInUse |-> FALSE, options |-> options]

\* new RouteNode(method, path, header, body, authenticate, ..., rendering)
RenderedRouteNode(f) ==
    [method |-> f.method, path |-> f.path, header |-> f.header, body |-> f.body,
     authenticate |-> f.authenticate, rendering |-> f.rendering]

\* authBlock.options["mode"] as BearerAuthGenerationMode ?? BearerAuthGenerationMode.None
BearerMode(authBlock) ==
    LET mode == GetKey(authBlock.options, "mode") IN
    IF IsUndefined(mode) THEN "NONE" ELSE IF mode.t = "string" THEN mode.s ELSE "unknown"

\* handleBearerAuthForModeFull: the secret written into jsonwebtoken_.sign and verify
Secret(authBlock, random) ==
    LET secret == GetKey(authBlock.options, "secret") IN
    IF /\ ~IsUndefined(secret)
       /\ secret.t = "global"
       /\ Len(secret.path) > 0
       /\ secret.path[1] = "env"
    THEN <<"process.env.", secret.g>>
    ELSE <<"\"", random, "\"">>

\* the Bearer blocks of a project that are generated in mode FULL, in order
FullBlocks(proj) ==
    SelectSeq(proj.authBlocks, LAMBDA e : e.v.type = "Bearer" /\ BearerMode(e.v) = "FULL")

\* the blocks whose mode is none of NONE, BASIC and FULL
UnknownMode(proj) ==
    \E i \in 1..Len(proj.authBlocks) :
        /\ proj.authBlocks[i].v.type = "Bearer"
        /\ BearerMode(proj.authBlocks[i].v) \notin {"NONE", "BASIC", "FULL"}

\* parseObject: the keys that get an input element, in the order they are written;
\* "unsupported" stands for a value that is neither an object nor a string
RECURSIVE SimpleInputs(_)
SimpleInputs(object) ==
    IF object = << >> THEN << >>
    ELSE LET value == Head(object).v
             first == IF value.t = "object" THEN SimpleInputs(value.o)
                      ELSE IF value.t = "string" THEN <<Head(object).k>>
                      ELSE <<"unsupported">>
         IN  first \o SimpleInputs(Tail(object))

\* generateRoute: the routes a form is generated for
IsRendered(route) == ~IsUndefined(route.rendering) /\ route.method \in {"POST", "PATCH"}

\* generateForm: if (!route.body || !route.rendering || route.rendering.type !== Form)
FormFails(route) == IsUndefined(route.body) \/ route.rendering.type # "form"

Forms(proj) == SelectSeq(proj.routes, IsRendered)

\* the keys of every form of the project, in the order their inputs are written
RECURSIVE FormInputs(_)
FormInputs(routes) ==
    IF routes = << >> THEN << >>
    ELSE (IF FormFails(Head(routes)) THEN << >> ELSE SimpleInputs(Schema(Head(routes).body)))
         \o FormInputs(Tail(routes))

\* the number of calls of randomString and randomElementId in one compile
Draws(proj) == Len(FullBlocks(proj)) + Len(FormInputs(Forms(proj)))

\* the files of one compile: index.js with the secret of every FULL block, and the
\* page with the id of every input element (parseSimpleInput: const id = randomElementId())
EmitFiles(proj, randoms) ==
    LET blocks == FullBlocks(proj)
        inputs == FormInputs(Forms(proj))
    IN  <<[file |-> "index.js",
           lines |-> [i \in 1..Len(blocks) |-> Secret(blocks[i].v, randoms[i])]],
          [file |-> "index.html",
           lines |-> [i \in 1..Len(inputs) |->
                        <<inputs[i], "_", randoms[Len(blocks) + i]>>]]>>

\* how one compile of the project ends
CompileEnds(proj) ==
    IF UnknownMode(proj) THEN "aborted"
    ELSE IF \E i \in 1..Len(Forms(proj)) : FormFails(Forms(proj)[i]) THEN "crashed"
    ELSE IF \E i \in 1..Len(FormInputs(Forms(proj))) :
                FormInputs(Forms(proj))[i] = "unsupported" THEN "aborted"
    ELSE "emitted"

BlockOptions ==
    {<< >>,
     <<[k |-> "mode", v |-> StrV("FULL")]>>,
     <<[k |-> "mode", v |-> StrV("FULL")],
       [k |-> "secret", v |-> GlobalVariable("SECRET", <<"env">>)]>>,
     <<[k |-> "mode", v |-> StrV("FULL")],
       [k |-> "secret", v |-> GlobalVariable("SECRET", <<"cfg">>)]>>,
     <<[k |-> "mode", v |-> StrV("FULL")], [k |-> "secret", v |-> StrV("s")]>>,
     <<[k |-> "mode", v |-> StrV("BASIC")]>>,
     <<[k |-> "mode", v |-> StrV("X")]>>}

\* the bodies of the route, by number
FormBodies ==
    <<Undefined,
      ObjV(<<[k |-> "a", v |-> StrV("string")]>>),
      ObjV(<<[k |-> "a", v |-> StrV("string")],
             [k |-> "o", v |-> ObjV(<<[k |-> "b", v |-> StrV("int")]>>)]>>),
      ObjV(<<[k |-> "n", v |-> NumV(1)]>>)>>

Renderings == {Undefined, [type |-> "form"], [type |-> "list"]}

\* a project a compile is given: one Bearer block and one route
EmitProject(o, b, r, m) ==
    [ProjectNode("JavaScript_ExpressJS") EXCEPT
        !.authBlocks = <<[k |-> "b",
                          v |-> AuthBlockNodeWith("Bearer", Undefined, Undefined, StrV("b"),
                                                  "public", o)]>>,
        !.routes = <<RenderedRouteNode(
                        [method |-> m, path |-> [path |-> "/p", alias |-> Undefined,
                                                 queryParameters |-> << >>],
                         header |-> Undefined, body |-> b, authenticate |-> Undefined,
                         rendering |-> r])>>]

InitEmit ==
    /\ \E o \in BlockOptions, b \in 1..Len(FormBodies), r \in Renderings,
          m \in {"POST", "GET"} :
            project = EmitProject(o, FormBodies[b], r, m)
    /\ pc = "compiling"
    /\ output = << >>
    /\ last = NoLast
    /\ middlewareOptions = << >>
    /\ hash = NoHash
    /\ JavaIdle
    /\ FrontEndIdle

\* one compile: the target plugin and the frontend plugin write their files
CompileProject ==
    /\ pc = "compiling"
    /\ pc' = CompileEnds(project)
    /\ IF CompileEnds(project) = "emitted"
       THEN \E randoms \in [1..Draws(project) -> RandomStrings] :
                output' = EmitFiles(project, randoms)
       ELSE output' = << >>
    /\ UNCHANGED <<files, policy, ctx, diagnostics, project, stack, result, startErrors,
                   buildDir, emitted, last, tick, lexerVars, middlewareOptions, hash,
                   javaVars>>

\* the same project is compiled a second time; the files of the first compile are kept
\* for the comparison
CompileAgain ==
    /\ pc \in {"emitted", "aborted", "crashed"}
    /\ last = NoLast
    /\ last' = [op |-> "compile", output |-> output, ended |-> pc]
    /\ output' = << >>
    /\ pc' = "compiling"
    /\ UNCHANGED <<files, policy, ctx, diagnostics, project, stack, result, startErrors,
                   buildDir, emitted, tick, lexerVars, middlewareOptions, hash, javaVars>>

NextEmit == CompileProject \/ CompileAgain

SpecEmit == InitEmit /\ [][NextEmit]_vars

----------------------------------------------------------------------------
(* ClassBuilder of the Spring Boot target *)

\* new ClassBuilder(package, name, isInterface = false)
ClassBuilder(name, isInterface) ==
    [name |-> name, isInterface |-> isInterface, imports |-> << >>, fields |-> << >>,
     innerClasses |-> << >>]

\* new FieldBuilder(name, type)
FieldBuilder(name, type) == [name |-> name, type |-> type, accessModifier |-> ""]

\* FieldBuilder.setAsField
setAsField(field) == [field EXCEPT !.accessModifier = "private "]

addImportAlways(b, importPath) == [b EXCEPT !.imports = Append(@, importPath)]

\* ClassBuilder.addImport
addImport(b, importPath) ==
    IF \E i \in 1..Len(b.imports) : b.imports[i] = importPath
    THEN b
    ELSE [b EXCEPT !.imports = Append(@, importPath)]

\* ClassBuilder.addField
addField(b, field) ==
    IF \E i \in 1..Len(b.fields) : b.fields[i].name = field.name
    THEN b
    ELSE [b EXCEPT !.fields = Append(@, setAsField(field))]

\* ClassBuilder.addClass, on a builder that is no interface
addClass(b, clazz) == [b EXCEPT !.innerClasses = Append(@, clazz)]

MaxClasses == 2

ImportPaths == {"java.util.List", "java.util.Map", "java.time.LocalDate"}

FieldInputs == {FieldBuilder(n, t) : n \in {"a", "b"}, t \in {"String", "long"}}

ClassInputs == {ClassBuilder("ADto", FALSE), ClassBuilder("BDto", FALSE)}

InitBuilder ==
    /\ \E isInterface \in BOOLEAN : builder = ClassBuilder("C", isInterface)
    /\ pc = "building"
    /\ last = NoLast
    /\ output = << >>
    /\ middlewareOptions = << >>
    /\ hash = NoHash
    /\ createdDtos = << >>
    /\ written = << >>
    /\ project = ProjectNode("")
    /\ FrontEndIdle

AddImport ==
    /\ pc = "building"
    /\ \E importPath \in ImportPaths :
        /\ builder' = addImport(builder, importPath)
        /\ last' = [op |-> "addImport", arg |-> importPath, before |-> builder,
                    threw |-> FALSE]
    /\ UNCHANGED <<files, policy, ctx, diagnostics, project, stack, pc, result, startErrors,
                   buildDir, emitted, tick, lexerVars, output, middlewareOptions, hash,
                   createdDtos, written>>

AddField ==
    /\ pc = "building"
    /\ \E field \in FieldInputs :
        /\ builder' = addField(builder, field)
        /\ last' = [op |-> "addField", arg |-> field, before |-> builder, threw |-> FALSE]
    /\ UNCHANGED <<files, policy, ctx, diagnostics, project, stack, pc, result, startErrors,
                   buildDir, emitted, tick, lexerVars, output, middlewareOptions, hash,
                   createdDtos, written>>

\* addClass: if (this._isInterface) throw new Error("Cannot add inner class to interface")
AddClass ==
    /\ pc = "building"
    /\ Len(builder.innerClasses) < MaxClasses
    /\ \E clazz \in ClassInputs :
        /\ builder' = IF builder.isInterface THEN builder ELSE addClass(builder, clazz)
        /\ last' = [op |-> "addClass", arg |-> clazz, before |-> builder,
                    threw |-> builder.isInterface]
    /\ UNCHANGED <<files, policy, ctx, diagnostics, project, stack, pc, result, startErrors,
                   buildDir, emitted, tick, lexerVars, output, middlewareOptions, hash,
                   createdDtos, written>>

NextBuilder == AddImport \/ AddField \/ AddClass

SpecBuilder == InitBuilder /\ [][NextBuilder]_vars

IsPrefix(s, t) == Len(s) <= Len(t) /\ SubSeq(t, 1, Len(s)) = s

NoDuplicate(s) == \A i, j \in 1..Len(s) : i # j => s[i] # s[j]

\* C25: after any sequence of ClassBuilder operations the import list holds no import
\* twice and every import that was added, the field list holds no name twice and a
\* field for every name that was added, neither list ever loses or reorders what it
\* holds (so an import stays where it was first added and a name keeps the field added
\* first), and addClass on an interface throws and leaves the inner classes as they were.
C25_ClassBuilder ==
    /\ [](/\ NoDuplicate(builder.imports)
          /\ NoDuplicate([i \in 1..Len(builder.fields) |-> builder.fields[i].name])
          /\ last.op = "addImport" =>
                \E i \in 1..Len(builder.imports) : builder.imports[i] = last.arg
          /\ last.op = "addField" =>
                \E i \in 1..Len(builder.fields) : builder.fields[i].name = last.arg.name
          /\ last.op = "addClass" /\ last.before.isInterface =>
                last.threw /\ builder.innerClasses = last.before.innerClasses
          /\ last.op = "addClass" /\ ~last.before.isInterface =>
                ~last.threw /\ builder.innerClasses
                                    = Append(last.before.innerClasses, last.arg))
    /\ [][/\ IsPrefix(builder.imports, builder'.imports)
          /\ IsPrefix(builder.fields, builder'.fields)]_vars

\* an interface that holds two imports and a field was given an import it holds, a
\* field of a name it holds with another type, or an inner class
C25_Witness ==
    /\ builder.isInterface
    /\ Len(builder.imports) = 2
    /\ Len(builder.fields) = 1
    /\ \/ last.op = "addImport" /\ builder.imports[1] = last.arg
       \/ last.op = "addField" /\ builder.fields[1].name = last.arg.name
                               /\ builder.fields[1].type # last.arg.type
       \/ last.op = "addClass" /\ last.threw

----------------------------------------------------------------------------
(* compileBodyOptionsAsDto of the Spring Boot target *)

\* getJavaTypeOfType
getJavaTypeOfType(queryType) ==
    CASE queryType = "string" -> "String"
      [] queryType = "int" -> "long"
      [] queryType = "float" -> "double"
      [] queryType = "bool" -> "boolean"
      [] queryType = "date" -> "java.time.LocalDate"
      [] queryType = "datetime" -> "java.time.LocalDateTime"
      [] queryType = "time" -> "java.time.LocalTime"
      [] OTHER -> "Object"

\* name[0].toUpperCase(), for the keys of DtoBodies
UpperCase == [a |-> "A", b |-> "B", c |-> "C", d |-> "D", e |-> "E"]

\* makePascalCase(key) + "Dto", for a key of one letter
InnerDtoName(key) == <<UpperCase[key], "Dto">>

\* compileBodyOptionsAsDto: compile(options, name): the keys from the i-th on are added
\* to classBuilder; a key of one lower-case letter is its own camel case and an allowed
\* Java name
RECURSIVE CompileDto(_, _, _)
CompileDto(options, i, classBuilder) ==
    IF i > Len(options) THEN classBuilder
    ELSE LET key == options[i].k
             value == options[i].v
         IN  CompileDto(options, i + 1,
                IF value.t \in {"object", "array", "global"}
                THEN LET innerClassBuilder ==
                            CompileDto(IF value.t = "object" THEN value.o ELSE << >>, 1,
                                       ClassBuilder(InnerDtoName(key), FALSE))
                     IN  addField(addClass(classBuilder, innerClassBuilder),
                                  FieldBuilder(key, innerClassBuilder.name))
                ELSE IF value.t = "string"
                THEN addField(classBuilder, FieldBuilder(key, getJavaTypeOfType(value.s)))
                ELSE classBuilder)

\* ClassBuilder.save: the file that is written
save(classBuilder) == [file |-> <<classBuilder.name, ".java">>, class |-> classBuilder]

DtoNeverCreated(dtos, h) == FALSE

\* if (this._createdDtos[hash])
DtoCreated(dtos, h) == HasKey(dtos, h) /\ GetKey(dtos, h) # ""

\* the body schemas of the routes: two orders of the same keys, at the top level and in
\* an object, and schemas that differ in their keys; the type names are one
\* character long, as the texts hashed are
DtoBodies ==
    {<<[k |-> "a", v |-> StrV("x")]>>,
     <<[k |-> "a", v |-> StrV("x")], [k |-> "b", v |-> StrV("e")]>>,
     <<[k |-> "b", v |-> StrV("e")], [k |-> "a", v |-> StrV("x")]>>,
     <<[k |-> "c", v |-> ObjV(<<[k |-> "d", v |-> StrV("x")],
                                [k |-> "e", v |-> StrV("e")]>>)]>>,
     <<[k |-> "c", v |-> ObjV(<<[k |-> "e", v |-> StrV("e")],
                                [k |-> "d", v |-> StrV("x")]>>)]>>}

\* methodName + "Dto"
DtoNames == {"XDto", "ApiXDto"}

InitDto ==
    /\ createdDtos = << >>
    /\ written = << >>
    /\ builder = NoBuilder
    /\ pc = "emitting"
    /\ last = NoLast
    /\ output = << >>
    /\ middlewareOptions = << >>
    /\ hash = NoHash
    /\ project = ProjectNode("Java_SpringBoot")
    /\ FrontEndIdle

\* compileBodyOptionsAsDto(bodyOptions, name), called for a route that has a body
CompileBodyOptionsAsDto ==
    /\ pc = "emitting"
    /\ \E bodyOptions \in DtoBodies, name \in DtoNames :
        LET h == generateMiddlewareOptionsHash(bodyOptions) IN
        IF DtoCreated(createdDtos, h)
        THEN /\ last' = [op |-> "compileBodyOptionsAsDto", hash |-> h,
                         returned |-> GetKey(createdDtos, h), known |-> TRUE,
                         writes |-> 0]
             /\ UNCHANGED <<createdDtos, written, builder>>
        ELSE LET classBuilder == CompileDto(bodyOptions, 1, ClassBuilder(name, FALSE)) IN
             /\ builder' = classBuilder
             /\ written' = Append(written, save(classBuilder))
             /\ createdDtos' = SetKey(createdDtos, h, classBuilder.name)
             /\ last' = [op |-> "compileBodyOptionsAsDto", hash |-> h,
                         returned |-> classBuilder.name, known |-> HasKey(createdDtos, h),
                         writes |-> 1]
    /\ UNCHANGED <<files, policy, ctx, diagnostics, project, stack, pc, result, startErrors,
                   buildDir, emitted, tick, lexerVars, output, middlewareOptions, hash>>

NextDto == CompileBodyOptionsAsDto

SpecDto == InitDto /\ [][NextDto]_vars

\* the hashes of the map, in the order they were stored
DtoHashes == [i \in 1..Len(createdDtos) |-> createdDtos[i].k]

\* C21: after any sequence of compileBodyOptionsAsDto calls the map holds one entry for
\* each hash that was passed, one file was written for each entry, in the order of the
\* entries and under the name of the entry, and a call with a hash that is in the map
\* returns the name the map holds for it since the first call and writes no file.
C21_DtoDeduplicated ==
    /\ [](/\ NoDuplicate(DtoHashes)
          /\ Len(written) = Len(createdDtos)
          /\ \A i \in 1..Len(createdDtos) :
                written[i].file = <<createdDtos[i].v, ".java">>
          /\ last.op = "compileBodyOptionsAsDto" =>
                /\ HasKey(createdDtos, last.hash)
                /\ last.returned = GetKey(createdDtos, last.hash)
                /\ last.known => last.writes = 0)
    /\ [][/\ IsPrefix(createdDtos, createdDtos')
          /\ IsPrefix(written, written')
          /\ HasKey(createdDtos, last'.hash) => written' = written]_vars

\* a call with a schema that holds an object and whose hash is in the map returned the
\* name of the file written for that hash and wrote nothing, the map holding two entries
C21_Witness ==
    /\ last.op = "compileBodyOptionsAsDto"
    /\ last.known
    /\ last.writes = 0
    /\ Len(createdDtos) > 1
    /\ \E i \in 1..Len(written) :
        /\ written[i].file = <<last.returned, ".java">>
        /\ Len(written[i].class.innerClasses) = 1

----------------------------------------------------------------------------
(* RouterNode.findRouteByAlias.  A path is the sequence of the texts of its tokens *)

\* replace(/\/+/g, "/")
RECURSIVE Collapse(_)
Collapse(path) ==
    IF Len(path) < 2 THEN path
    ELSE IF path[1] = "/" /\ path[2] = "/" THEN Collapse(Tail(path))
    ELSE <<path[1]>> \o Collapse(Tail(path))

joinPaths(paths) == Join(SelectSeq(paths, LAMBDA x : x # << >>), <<"/">>)

\* RouterNode.combinePaths
combinePaths(paths) == Collapse(Join(SelectSeq(paths, LAMBDA x : x # << >>), <<"/">>))

\* RouterNode.findRouteByAlias(alias, parentPath), parentPath ?? "" already taken:
\* FindInRoutes is the first loop, FindInRouters the second
RECURSIVE findRouteByAlias(_, _, _)
RECURSIVE FindInRouters(_, _, _, _)
FindInRoutes(routes, alias) ==
    SelectSeq(routes, LAMBDA route : route.path.alias = StrV(alias))

findRouteByAlias(node, alias, parentPath) ==
    IF FindInRoutes(node.routes, alias) # << >>
    THEN [route |-> FindInRoutes(node.routes, alias)[1], parentPath |-> parentPath]
    ELSE FindInRouters(node, 1, alias, parentPath)

FindInRouters(node, i, alias, parentPath) ==
    IF i > Len(node.routers) THEN Undefined
    ELSE LET router == node.routers[i]
             route == findRouteByAlias(router, alias,
                                       combinePaths(<<parentPath, router.path.path>>))
         IN  IF route # Undefined THEN route
             ELSE FindInRouters(node, i + 1, alias, parentPath)

RouterPaths == {<<"/">>, <<"/", "api">>, <<"/", "api", "/">>, <<"/", "/", "v">>}

Aliases == {"a", "b", "z"}

\* GET /name [as alias]
AliasRoute(name, alias) ==
    RouteNode([method |-> "GET",
               path |-> [path |-> <<"/", name>>,
                         alias |-> IF alias = "" THEN Undefined ELSE StrV(alias),
                         queryParameters |-> << >>],
               header |-> Undefined, body |-> Undefined, authenticate |-> Undefined])

\* router path { routes routers }
AliasRouter(path, routes, routers) ==
    RouterNode([path |-> [path |-> path, alias |-> Undefined, queryParameters |-> << >>],
                header |-> Undefined, body |-> Undefined, authenticate |-> Undefined,
                routes |-> routes, routers |-> routers])

\* a project with a route, beside a router that holds a route and, when inner is a
\* path, a router with a route in it, and a last router with a route
AliasProject(outer, inner, x, y, z) ==
    [ProjectNode("") EXCEPT
        !.routes = <<AliasRoute("z", z)>>,
        !.routers =
            <<AliasRouter(outer, <<AliasRoute("x", x)>>,
                          IF inner = << >> THEN << >>
                          ELSE <<AliasRouter(inner, <<AliasRoute("y", y)>>, << >>)>>),
              AliasRouter(<<"/", "w">>, <<AliasRoute("y", "b")>>, << >>)>>]

InitAlias ==
    /\ \E outer \in RouterPaths, inner \in RouterPaths \cup {<< >>},
          x \in {"", "a"}, y \in {"a", "b"}, z \in {"", "z", "a"} :
            project = AliasProject(outer, inner, x, y, z)
    /\ pc = "parsed"
    /\ last = NoLast
    /\ output = << >>
    /\ middlewareOptions = << >>
    /\ hash = NoHash
    /\ JavaIdle
    /\ FrontEndIdle

\* proj.findRouteByAlias(alias)
FindRouteByAlias ==
    /\ pc = "parsed"
    /\ \E alias \in Aliases :
        last' = [op |-> "findRouteByAlias", alias |-> alias,
                 returned |-> findRouteByAlias(project, alias, << >>)]
    /\ UNCHANGED <<files, policy, ctx, diagnostics, project, stack, pc, result, startErrors,
                   buildDir, emitted, tick, lexerVars, output, middlewareOptions, hash,
                   javaVars>>

NextAlias == FindRouteByAlias

SpecAlias == InitAlias /\ [][NextAlias]_vars

\* the routes of the tree, each with the paths of the routers from the project down to
\* the router that holds it
RECURSIVE Located(_, _)
Located(node, chain) ==
    {[route |-> node.routes[i], chain |-> chain] : i \in 1..Len(node.routes)}
    \cup UNION {Located(node.routers[i], Append(chain, node.routers[i].path.path)) :
                    i \in 1..Len(node.routers)}

\* the paths concatenated with "/", every run of "/" collapsed
Concatenated(paths) == Collapse(Join(paths, <<"/">>))

\* the effective path of a route
EffectivePath(loc) == Concatenated(Append(loc.chain, loc.route.path.path))

\* what both statements of C22 share: a pair is returned exactly when a route of the
\* tree has the alias, and it holds such a route and the concatenation of the paths of
\* the routers above it
FoundWhereLocated ==
    last.op = "findRouteByAlias" =>
        LET having == {loc \in Located(project, << >>) :
                            loc.route.path.alias = StrV(last.alias)}
        IN  /\ last.returned = Undefined <=> having = {}
            /\ last.returned # Undefined =>
                    \E loc \in having :
                        /\ last.returned.route = loc.route
                        /\ last.returned.parentPath = Concatenated(loc.chain)

\* C22 as stated: findRouteByAlias returns a pair exactly when a route of the tree has
\* the alias; parentPath is the concatenation with "/" of the paths of the routers from
\* the project down to the router of the route, runs of "/" collapsed; and parentPath
\* followed by the path of the route is the effective path of the route.
C22_ParentPathThenPath ==
    /\ FoundWhereLocated
    /\ last.op = "findRouteByAlias" /\ last.returned # Undefined =>
            \E loc \in Located(project, << >>) :
                /\ last.returned.route = loc.route
                /\ last.returned.parentPath = Concatenated(loc.chain)
                /\ last.returned.parentPath \o loc.route.path.path = EffectivePath(loc)

\* C22, amended: as above, but the effective path is parentPath and the path of the
\* route concatenated with "/", runs of "/" collapsed.
C22_ParentPathCollapsed ==
    /\ FoundWhereLocated
    /\ last.op = "findRouteByAlias" /\ last.returned # Undefined =>
            \E loc \in Located(project, << >>) :
                /\ last.returned.route = loc.route
                /\ last.returned.parentPath = Concatenated(loc.chain)
                /\ Concatenated(<<last.returned.parentPath, loc.route.path.path>>)
                        = EffectivePath(loc)

\* the route found is two routers down, and the paths of the routers joined with "/"
\* hold a run of "/"
C22_Witness ==
    /\ last.op = "findRouteByAlias"
    /\ last.returned # Undefined
    /\ \E loc \in Located(project, << >>) :
        /\ last.returned.route = loc.route
        /\ Len(loc.chain) = 2
        /\ Join(loc.chain, <<"/">>) # last.returned.parentPath
        /\ last.returned.parentPath \o loc.route.path.path # EffectivePath(loc)

====
